---- MODULE Spec2Model ----
(***************************************************************************)
(* Principal-scoped backend/tool aggregation of Middleware-GenAI.          *)
(*                                                                         *)
(* The module models                                                       *)
(*   - ToolRegistry, MockBackendServer and RemoteBackendServer             *)
(*     (components/middleware/src/mcp_manager/data/tool_models.py),        *)
(*   - BackendRegistry.get_backends_for_principal in its two revisions     *)
(*     (src/mcp_manager/mcp_server_registry.py, driven by backends.json,   *)
(*     and components/middleware/.../mcp_server_registry.py, driven by     *)
(*     the database view),                                                 *)
(*   - build_middleware_tool_registry and build_embedding_manager          *)
(*     (components/middleware/src/mcp_manager/mcp_manager.py).             *)
(*                                                                         *)
(* Python strings that are only concatenated with "." and compared are     *)
(* modelled as the sequence of their dot-free segments ("a.b" is           *)
(* <<"a","b">>), so f"{x}.{y}" is exactly x \o y.  Role strings, which the *)
(* code tests with the `in` operator, are sequences of characters.         *)
(***************************************************************************)
EXTENDS Integers, Sequences, FiniteSets, TLC

VARIABLES
    registry,     \* ToolRegistry._tools : tool id -> RegisteredTool
    lastCall,     \* the last call made on the ToolRegistry API and its outcome
    rev,          \* which revision of BackendRegistry is installed
    source,       \* content of the backend definition source (backends.json / the view)
    config,       \* BackendRegistry._config["backends"]
    pc,           \* position of the one aggregation call of this session
    entry,        \* which entry point was called
    principal,    \* the principal dict passed to the entry point
    servers,      \* the list object the loop of get_backends_for_principal iterates
    idx,          \* loop position in get_backends_for_principal / the register loop
    backends,     \* the list `result` / `backends` being built
    returned,     \* value returned to the caller of the entry point
    raised,       \* exception that left the entry point ("none" when it returned)
    log,          \* what the loop did per descriptor, in order
    rb,           \* one RemoteBackendServer used directly through its API
    tasks,        \* the connect()/close() coroutines in flight on rb
    lastDone,     \* the connect()/close() call that finished last, and how
    world,        \* processes/channels/sessions the environment has open for rb
    lastGet,      \* outcome of the last get_tools() on rb
    disk,         \* what is found at the path of backends.json
    sessions,     \* two aggregations running in one process, and their objects
    local,        \* one MockBackendServer, the callables given to it, the last call
    held,         \* the list a caller got from ToolRegistry.list_all() and kept
    runs,         \* two aggregations over two orderings of one descriptor set
    reload,       \* reloads of backends.json made while the aggregation is in its loop
    channel,      \* tool calls in flight on one connected provider, and their ends
    proc,         \* one McpProcess of the gateway, its child and the stop() on it
    auth,         \* REVOKED_REFRESH_TOKENS and the auth requests being handled
    chat          \* CHAT_SESSIONS and the last request that looked one up

vars == <<registry, lastCall, rev, source, config, pc, entry, principal, servers, idx,
          backends, returned, raised, log, rb, tasks, lastDone, world, lastGet,
          disk, sessions, local, held, runs, reload, channel, proc, auth, chat>>

aggVars == <<rev, source, config, pc, entry, principal, servers, idx, backends,
             returned, raised, log>>
remoteVars == <<rb, tasks, lastDone, world, lastGet>>
moreVars == <<runs, reload, channel, proc, auth, chat>>
restVars == <<disk, sessions, local, held, moreVars>>

----------------------------------------------------------------------------
(* Bounds of the model *)

\* number of distinct handler objects a client registers under one id
NumHandlers == 2
\* seconds stop() waits for the child after terminate() (timeout=3)
StopTimeout == 3
\* longest descriptor list drawn from the small pool
MaxDescriptors == 2
\* connect()/close() calls made on the directly driven provider
MaxCalls == 3

----------------------------------------------------------------------------
(* Strings *)

\* an id made of the operation name alone
DotUnqualified(x, y) == y

\* f"{x}.{y}" on segment sequences
Dot(x, y) == x \o y

HR == <<"hr">>
JIRA == <<"jira">>
DOCS == <<"docs">>
DOCRET == <<"document_retrieval">>
DOCSTORE == <<"document_store">>
DOCSTORE_DOCS == <<"document_store", "documents">>   \* "document_store.documents"
DEEPWIKI == <<"deepwiki">>
CRM == <<"crm">>

OpGetPolicy == <<"get_policy">>
OpSearchIssues == <<"search_issues">>
OpUpsert == <<"upsert">>
OpSearch == <<"search">>
OpAsk == <<"ask_question">>
OpDocUpsert == <<"documents", "upsert">>      \* "documents.upsert"
OpDocSearch == <<"documents", "search">>      \* "documents.search"

----------------------------------------------------------------------------
(* RegisteredTool and ToolRegistry *)

\* RegisteredTool(id, server_id, schema, handler); the schema is its name,
\* the handler an opaque object identity.
RegisteredTool(id, server_id, name, handler) ==
    [id |-> id, server_id |-> server_id, name |-> name, handler |-> handler]

EmptyDict == << >>

\* dict assignment d[k] = v
DictSet(d, k, v) == [x \in (DOMAIN d) \cup {k} |-> IF x = k THEN v ELSE d[x]]

\* ToolRegistry.register with the duplicate check removed
register_overwrite(tools, tool) ==
    [tools |-> DictSet(tools, tool.id, tool), raised |-> "none"]

\* ToolRegistry.register: the new _tools and the exception raised
register(tools, tool) ==
    IF tool.id \in DOMAIN tools
    THEN [tools |-> tools, raised |-> "ValueError"]
    ELSE [tools |-> DictSet(tools, tool.id, tool), raised |-> "none"]

\* ToolRegistry.list_all: the values, as a set
list_all(tools) == {tools[k] : k \in DOMAIN tools}

\* dict.values() handed out as it is: a view that shows the dict as it is
\* when looked at
DictValuesView(values) == [alias |-> TRUE, items |-> values]

\* list(...): a new list object holding the elements there are now
PyList(values) == [alias |-> FALSE, items |-> values]

\* the elements seen in an object obtained from a registry whose _tools
\* is now `tools`
Elements(obj, tools) == IF obj.alias THEN list_all(tools) ELSE obj.items

\* ToolRegistry.get: the tool or None
get(tools, tool_id) == IF tool_id \in DOMAIN tools THEN <<tools[tool_id]>> ELSE << >>

----------------------------------------------------------------------------
(* MockBackendServer *)

\* a Python Optional: None is << >>, a value v is <<v>>
None == << >>
Some(v) == <<v>>

\* position of the entry with this id in a dict kept as an insertion-ordered
\* sequence of tools, 0 when absent
RECURSIVE IndexOfId(_, _)
IndexOfId(seq, id) ==
    IF seq = << >> THEN 0
    ELSE IF seq[Len(seq)].id = id /\ IndexOfId(SubSeq(seq, 1, Len(seq) - 1), id) = 0
         THEN Len(seq)
         ELSE IndexOfId(SubSeq(seq, 1, Len(seq) - 1), id)

\* MockBackendServer(server_id): the backend object.  The fields session,
\* tools_mcp, tools_wrapped, exit_stack and cfg belong to RemoteBackendServer
\* and keep their defaults here, so that one list can hold both classes.
\* src is the position of the descriptor the backend was built for (0: none).
MockBackendServer(server_id, src) ==
    [class |-> "MockBackendServer", server_id |-> server_id, tools |-> << >>,
     cfg |-> [transport |-> "", command |-> FALSE, server_url |-> FALSE],
     session |-> "None", tools_mcp |-> << >>, tools_wrapped |-> None,
     exit_stack |-> << >>, src |-> src]

\* add_tool keeping its tools in a list it appends to
add_tool_appending(b, name, handler) ==
    [b EXCEPT !.tools = Append(@, RegisteredTool(Dot(b.server_id, name), b.server_id,
                                                name, handler))]

\* MockBackendServer.add_tool: self.tools[f"{server_id}.{name}"] = registered
add_tool(b, name, handler) ==
    LET id == Dot(b.server_id, name)
        t == RegisteredTool(id, b.server_id, name, handler)
        k == IndexOfId(b.tools, id)
    IN  [b EXCEPT !.tools = IF k = 0 THEN Append(@, t) ELSE [@ EXCEPT ![k] = t]]

\* a callable given to add_tool: a plain function or a coroutine function
\* returning ret
Callable(kind, ret) == [kind |-> kind, ret |-> ret]

\* a Python object by the number of awaits that lie between it and the
\* value v: 0 for v itself, 1 for a coroutine returning v, 2 for a
\* coroutine returning such a coroutine
Obj(awaits, v) == [awaits |-> awaits, v |-> v]

\* fn(args): a plain function returns its value, a coroutine function a
\* coroutine
PyCall(fn) == IF fn.kind = "async def" THEN Obj(1, fn.ret) ELSE Obj(0, fn.ret)

\* `await x`
Await(x) == Obj(x.awaits - 1, x.v)

\* asyncio.iscoroutine(x)
iscoroutine(x) == x.awaits > 0

\* add_tool's wrapper `async def async_handler(args): return handler(args)`
\* called: a coroutine that returns whatever handler(args) returns
async_handler(fn) == Obj(PyCall(fn).awaits + 1, PyCall(fn).v)

\* handle_call_tool after the lookup: result = await tool.handler(arguments),
\* awaited once more when it is a coroutine
handle_call_tool(fn) ==
    LET result == Await(async_handler(fn))
    IN  IF iscoroutine(result) THEN Await(result) ELSE result

----------------------------------------------------------------------------
(* RemoteBackendServer *)

\* MCPConnectionConfig: only what connect() branches on (is command / is
\* server_url set, which transport)
MCPConnectionConfig(transport, command, server_url) ==
    [transport |-> transport, command |-> command, server_url |-> server_url]

\* RemoteBackendServer.__init__
RemoteBackendServer(server_id, cfg, src) ==
    [class |-> "RemoteBackendServer", server_id |-> server_id, tools |-> << >>,
     cfg |-> cfg, session |-> "None", tools_mcp |-> << >>,
     tools_wrapped |-> None, exit_stack |-> << >>, src |-> src]

\* connect(), lines 151-194 up to the first await: where the call goes next
connect_begin(p) ==
    IF p.session # "None" THEN "return"
    ELSE IF p.cfg.transport = "stdio"
    THEN IF ~p.cfg.command THEN "ValueError" ELSE "transport"
    ELSE IF p.cfg.transport \in {"sse", "http"}
    THEN IF ~p.cfg.server_url THEN "ValueError" ELSE "transport"
    ELSE "NotImplementedError"

\* await self._exit_stack.enter_async_context(stdio_client / sse_client /
\* streamablehttp_client): on success the transport is on the exit stack
connect_transport(p, ok) ==
    IF ok THEN [p |-> [p EXCEPT !.exit_stack = Append(@, "transport")], next |-> "session"]
    ELSE [p |-> p, next |-> "ConnectError"]

\* self._session = await self._exit_stack.enter_async_context(ClientSession(...))
connect_session(p, ok) ==
    IF ok THEN [p |-> [p EXCEPT !.exit_stack = Append(@, "session"),
                                !.session = "ClientSession"],
                next |-> "initialize"]
    ELSE [p |-> p, next |-> "ConnectError"]

\* await self._session.initialize()
connect_initialize(p, ok) ==
    IF ok THEN [p |-> p, next |-> "list_tools"]
    ELSE [p |-> p, next |-> "ConnectError"]

\* list_result = await self._session.list_tools(); cache it
connect_list_tools(p, ok, listing) ==
    IF ok THEN [p |-> [p EXCEPT !.tools_mcp = listing, !.tools_wrapped = None],
                next |-> "return"]
    ELSE [p |-> p, next |-> "ConnectError"]

\* close() with an exit stack that keeps its entries after aclose()
close_aclose_keeping(p) == p

\* close(): await self._exit_stack.aclose()
close_aclose(p) == [p EXCEPT !.exit_stack = << >>]

\* close(): the three assignments after the await
close_reset(p) == [p EXCEPT !.session = "None", !.tools_mcp = << >>, !.tools_wrapped = None]

\* the list comprehension of get_tools(): one RegisteredTool per cached tool_def
RECURSIVE Wrap(_, _)
Wrap(p, defs) ==
    IF defs = << >> THEN << >>
    ELSE <<RegisteredTool(Dot(p.server_id, Head(defs)), p.server_id, Head(defs), p.src)>>
         \o Wrap(p, Tail(defs))

\* get_tools() without its early return of the cached list
remote_get_tools_uncached(p) ==
    IF p.session = "None"
    THEN [p |-> p, val |-> << >>, raised |-> "RuntimeError", built |-> FALSE]
    ELSE [p |-> [p EXCEPT !.tools_wrapped = Some(Wrap(p, p.tools_mcp))],
          val |-> Wrap(p, p.tools_mcp), raised |-> "none", built |-> TRUE]

\* RemoteBackendServer.get_tools: the provider afterwards, the list returned,
\* the exception raised, and whether the call made new handler closures
\* (built) rather than return the cached list
remote_get_tools(p) ==
    IF p.tools_wrapped # None
    THEN [p |-> p, val |-> p.tools_wrapped[1], raised |-> "none", built |-> FALSE]
    ELSE IF p.session = "None"
    THEN [p |-> p, val |-> << >>, raised |-> "RuntimeError", built |-> FALSE]
    ELSE [p |-> [p EXCEPT !.tools_wrapped = Some(Wrap(p, p.tools_mcp))],
          val |-> Wrap(p, p.tools_mcp), raised |-> "none", built |-> TRUE]

\* the handler get_tools() builds for a tool of provider p, awaited once:
\* `assert self._session is not None` (stripped when Python runs with -O,
\* so that None.call_tool raises AttributeError), then
\* await self._session.call_tool(...), whose exception is not caught
handler(p, optimized, ok) ==
    IF p.session = "None"
    THEN IF optimized THEN "AttributeError" ELSE "AssertionError"
    ELSE IF ok THEN "result" ELSE "McpError"

\* BackendServer.get_tools, dispatched on the class of the backend
get_tools(b) ==
    IF b.class = "MockBackendServer"
    THEN [p |-> b, val |-> b.tools, raised |-> "none"]
    ELSE remote_get_tools(b)

\* await backend.connect() run to its end against an environment that lets
\* the steps before `outcome` succeed and serves `listing` to list_tools()
connect(p, outcome, listing) ==
    LET b == connect_begin(p)
        t == connect_transport(p, outcome # "fail_transport")
        s == connect_session(t.p, outcome # "fail_session")
        i == connect_initialize(s.p, outcome # "fail_initialize")
        l == connect_list_tools(i.p, outcome # "fail_list_tools", listing)
    IN  IF b = "return" THEN [p |-> p, raised |-> "none"]
        ELSE IF b # "transport" THEN [p |-> p, raised |-> b]
        ELSE IF t.next # "session" THEN [p |-> t.p, raised |-> t.next]
        ELSE IF s.next # "initialize" THEN [p |-> s.p, raised |-> s.next]
        ELSE IF i.next # "list_tools" THEN [p |-> i.p, raised |-> i.next]
        ELSE IF l.next # "return" THEN [p |-> l.p, raised |-> l.next]
        ELSE [p |-> l.p, raised |-> "none"]

----------------------------------------------------------------------------
(* Principals and backend descriptors *)

Admin == <<"a", "d", "m", "i", "n">>
User == <<"u", "s", "e", "r">>
Guest == <<"g", "u", "e", "s", "t">>
SuperAdmin == <<"s", "u", "p", "e", "r">> \o Admin

\* Python `x in s` for two str
PyInStr(x, s) == \E i \in 0..(Len(s) - Len(x)) : SubSeq(s, i + 1, i + Len(x)) = x

\* Python `x in l` for a list l
PyInList(x, l) == \E i \in 1..Len(l) : l[i] = x

\* the value under the key "roles" of a principal dict: absent, a str or a list
RolesAbsent == [t |-> "absent", s |-> << >>, l |-> << >>]
RolesStr(s) == [t |-> "str", s |-> s, l |-> << >>]
RolesList(l) == [t |-> "list", s |-> << >>, l |-> l]

\* principal.get("roles", []) followed by `r in roles`
PyInRoles(r, roles) ==
    IF roles.t = "str" THEN PyInStr(r, roles.s) ELSE PyInList(r, roles.l)

\* principal.get("user_id", "guest")
principal_user_id(p) == IF p.user_id = None THEN "guest" ELSE p.user_id[1]

\* has_role = not required_roles or any(r in roles for r in required_roles)
has_role(backend_def, p) ==
    \/ backend_def.required_roles = << >>
    \/ \E k \in 1..Len(backend_def.required_roles) :
          PyInRoles(backend_def.required_roles[k], p.roles)

\* user_allowed = not allowed_users or user_id in allowed_users
user_allowed(backend_def, p) ==
    \/ backend_def.allowed_users = << >>
    \/ PyInList(principal_user_id(p), backend_def.allowed_users)

\* the filter with the two checks joined by `or`
is_allowed_or(backend_def, p) == has_role(backend_def, p) \/ user_allowed(backend_def, p)

\* `if not (has_role and user_allowed): continue`
is_allowed(backend_def, p) == has_role(backend_def, p) /\ user_allowed(backend_def, p)

----------------------------------------------------------------------------
(* Backend factory table *)

\* local_servers/hr.py build_hr_server
build_hr_server(src) == add_tool(MockBackendServer(HR, src), OpGetPolicy, src)

\* local_servers/document_retrieval.py build_backend
build_backend(src) ==
    add_tool(add_tool(MockBackendServer(DOCRET, src), OpUpsert, src), OpSearch, src)

\* the keys of BackendRegistry._factories: the factories discovered in
\* local_servers or handed to register_factory
FactoryKeys == {"hr", "document_retrieval"}

\* self._factories.get(factory_name): is there a factory
factories_get(factory_name) == factory_name \in FactoryKeys

\* backend = factory()
factory_call(factory_name, src) ==
    IF factory_name = "hr" THEN build_hr_server(src) ELSE build_backend(src)

----------------------------------------------------------------------------
(* BackendRegistry.get_backends_for_principal: one iteration of the loop *)

Ev(i, what) == [i |-> i, ev |-> what]

\* what one iteration does: the backends it appends, what it did (in
\* order), and the exception that leaves it
Iter(append, events, exc) == [append |-> append, events |-> events, raised |-> exc]

\* the remote branch: MCPConnectionConfig (whose name=backend_def["name"]
\* raises KeyError when the definition has no "name"), RemoteBackendServer,
\* connect, append
remote_branch(d, i, outcome, listing, before) ==
    LET c == connect(RemoteBackendServer(d.name, d.cfg, i), outcome, listing)
    IN  IF d.name = None THEN Iter(<< >>, before, "KeyError")
        ELSE IF c.raised = "none"
        THEN Iter(<<c.p>>, before \o <<Ev(i, "connect")>>, "none")
        ELSE Iter(<< >>, before \o <<Ev(i, "connect")>>, c.raised)

\* revision driven by backends.json (src/mcp_manager/mcp_server_registry.py)
iteration_config(d, i, p, outcome, listing) ==
    IF ~d.enabled THEN Iter(<< >>, << >>, "none")
    ELSE IF ~factories_get(d.factory) /\ d.kind # "remote_mcp"
    THEN Iter(<< >>, <<Ev(i, "lookup")>>, "none")
    ELSE IF ~is_allowed(d, p)
    THEN Iter(<< >>, <<Ev(i, "lookup"), Ev(i, "auth")>>, "none")
    ELSE IF d.kind = "local_mcp_mock"
    THEN IF ~factories_get(d.factory)
         THEN Iter(<< >>, <<Ev(i, "lookup"), Ev(i, "auth"), Ev(i, "lookup")>>, "none")
         ELSE Iter(<<factory_call(d.factory, i)>>,
                   <<Ev(i, "lookup"), Ev(i, "auth"), Ev(i, "lookup"), Ev(i, "factory")>>,
                   "none")
    ELSE IF d.kind = "remote_mcp"
    THEN remote_branch(d, i, outcome, listing, <<Ev(i, "lookup"), Ev(i, "auth")>>)
    ELSE Iter(<< >>, <<Ev(i, "lookup"), Ev(i, "auth")>>, "none")

\* revision driven by the database view
\* (components/middleware/src/mcp_manager/mcp_server_registry.py)
iteration_db(d, i, p, outcome, listing) ==
    IF ~d.enabled THEN Iter(<< >>, << >>, "none")
    ELSE IF d.kind = "local_mcp_mock"
    THEN IF ~factories_get(d.factory)
         THEN Iter(<< >>, <<Ev(i, "lookup")>>, "none")
         ELSE Iter(<<factory_call(d.factory, i)>>,
                   <<Ev(i, "lookup"), Ev(i, "lookup"), Ev(i, "factory")>>, "none")
    ELSE IF d.kind = "remote_mcp"
    THEN remote_branch(d, i, outcome, listing, << >>)
    ELSE Iter(<< >>, << >>, "none")

----------------------------------------------------------------------------
(* mcp_manager.py *)

\* build_embedding_manager adding documents.upsert whatever the role is
build_embedding_manager_for_all(p) ==
    IF p.role = None THEN [val |-> MockBackendServer(DOCSTORE, 0), raised |-> "KeyError"]
    ELSE [val |-> add_tool(add_tool(MockBackendServer(DOCSTORE, 0), OpDocUpsert, 0),
                           OpDocSearch, 0),
          raised |-> "none"]

\* build_embedding_manager: the document_store backend, or the KeyError of
\* current_principal["role"]
build_embedding_manager(p) ==
    IF p.role = None THEN [val |-> MockBackendServer(DOCSTORE, 0), raised |-> "KeyError"]
    ELSE [val |-> add_tool(IF p.role[1] = Admin
                           THEN add_tool(MockBackendServer(DOCSTORE, 0), OpDocUpsert, 0)
                           ELSE MockBackendServer(DOCSTORE, 0),
                           OpDocSearch, 0),
          raised |-> "none"]

\* for tool in backend.get_tools(): registry.register(tool) -- up to the
\* first exception
RECURSIVE register_all(_, _)
register_all(tools, list) ==
    IF list = << >> THEN [tools |-> tools, raised |-> "none"]
    ELSE LET r == register(tools, Head(list))
         IN  IF r.raised # "none" THEN r ELSE register_all(r.tools, Tail(list))

----------------------------------------------------------------------------
(* Inputs *)

\* one entry of "backends" in backends.json / one row of the view
Descriptor(name, kind, factory, cfg, enabled, required_roles, allowed_users) ==
    [name |-> name, kind |-> kind, factory |-> factory, cfg |-> cfg,
     enabled |-> enabled, required_roles |-> required_roles,
     allowed_users |-> allowed_users]

NoCfg == MCPConnectionConfig("stdio", FALSE, FALSE)
HttpCfg == MCPConnectionConfig("http", FALSE, TRUE)
StdioCfg == MCPConnectionConfig("stdio", TRUE, FALSE)
SseNoUrlCfg == MCPConnectionConfig("sse", FALSE, FALSE)
WsCfg == MCPConnectionConfig("websocket", FALSE, TRUE)

\* name, kind, factory and connection parameters of the descriptors drawn
Shape(name, kind, factory, cfg) ==
    [name |-> name, kind |-> kind, factory |-> factory, cfg |-> cfg]

ShapeHR == Shape(HR, "local_mcp_mock", "hr", NoCfg)
ShapeDocs == Shape(DOCS, "local_mcp_mock", "document_retrieval", NoCfg)
ShapeCRM == Shape(CRM, "local_mcp_mock", "crm", NoCfg)
ShapeDeepwiki == Shape(DEEPWIKI, "remote_mcp", "", HttpCfg)
ShapeDocstoreDocs == Shape(DOCSTORE_DOCS, "remote_mcp", "", StdioCfg)
\* a remote definition without the key "name"
ShapeNameless == Shape(None, "remote_mcp", "", HttpCfg)

Shapes ==
    {ShapeHR, ShapeDocs, ShapeCRM, ShapeDeepwiki, ShapeDocstoreDocs, ShapeNameless,
     Shape(<<"yt">>, "remote_mcp", "", NoCfg),
     Shape(<<"events">>, "remote_mcp", "", SseNoUrlCfg),
     Shape(<<"ws">>, "remote_mcp", "", WsCfg),
     Shape(JIRA, "", "hr", NoCfg)}

RoleRules == {<< >>, <<Admin>>, <<User, Admin>>}
UserRules == {<< >>, <<"alice">>}

FromShape(sh, enabled, rr, au) ==
    Descriptor(sh.name, sh.kind, sh.factory, sh.cfg, enabled, rr, au)

\* every descriptor drawn when the source holds a single one
RichPool ==
    {FromShape(sh, e, rr, au) :
        sh \in Shapes, e \in BOOLEAN, rr \in RoleRules, au \in UserRules}

\* the descriptors longer sources are made of
SmallPool ==
    {FromShape(ShapeHR, TRUE, << >>, << >>),
     FromShape(ShapeHR, TRUE, <<Admin>>, << >>),
     FromShape(ShapeDocs, TRUE, << >>, << >>),
     FromShape(ShapeCRM, TRUE, << >>, << >>),
     FromShape(ShapeDeepwiki, TRUE, << >>, << >>),
     FromShape(ShapeDeepwiki, FALSE, << >>, << >>),
     FromShape(ShapeDocstoreDocs, TRUE, << >>, <<"alice">>),
     FromShape(ShapeNameless, TRUE, << >>, << >>)}

SeqsUpTo(S, n) == UNION {[1..k -> S] : k \in 0..n}

Sources == SeqsUpTo(SmallPool, MaxDescriptors) \cup {<<d>> : d \in RichPool}

\* the principal dict: the keys "user_id", "roles" (read by the
\* backends.json revision) and "role" (read by build_embedding_manager)
Principal(user_id, roles, role) == [user_id |-> user_id, roles |-> roles, role |-> role]

Principals ==
    {Principal(u, rs, r) :
        u \in {None, Some("alice"), Some("bob")},
        rs \in {RolesAbsent, RolesStr(Admin), RolesStr(User), RolesStr(SuperAdmin),
                RolesList(<<Admin>>), RolesList(<<Guest>>)},
        r \in {None, Some(Admin), Some(User)}}

CorePrincipals ==
    {Principal(Some("alice"), RolesStr(Admin), Some(Admin)),
     Principal(Some("bob"), RolesStr(User), Some(User)),
     Principal(Some("bob"), RolesList(<<Admin>>), None)}

\* the principals a session over this source is started with
PrincipalsFor(src) == IF Len(src) <= 1 THEN Principals ELSE CorePrincipals

\* what the environment lets connect() do, and what a server lists
Outcomes == {"ok", "fail_transport", "fail_session", "fail_initialize", "fail_list_tools"}
Listings == {<< >>, <<OpSearch>>, <<OpSearch, OpAsk>>, <<OpSearch, OpSearch>>}

NoPrincipal == Principal(None, RolesAbsent, None)

\* the value an entry point returns: nothing yet, a ToolRegistry, a list of backends
NoReturn == [kind |-> "none", tools |-> EmptyDict, backends |-> << >>]
ReturnRegistry(tools) == [kind |-> "registry", tools |-> tools, backends |-> << >>]
ReturnBackends(list) == [kind |-> "backends", tools |-> EmptyDict, backends |-> list]

----------------------------------------------------------------------------
(* The aggregation call *)

\* what can be at the config path: no file, a file that is not JSON, a
\* JSON object without "backends", one whose "backends" is not a list, or
\* one with a list of backend definitions
DiskKinds == {"absent", "not_json", "no_backends", "not_a_list", "ok"}

\* BackendRegistry.load_config_from_disk (backends.json revision): the new
\* self._config["backends"] and the exception raised; the entries of the
\* list are not looked at
load_config_from_disk(old, kind, file) ==
    IF kind = "absent" THEN [config |-> << >>, raised |-> "none"]
    ELSE IF kind = "not_json" THEN [config |-> old, raised |-> "JSONDecodeError"]
    ELSE IF kind \in {"no_backends", "not_a_list"}
    THEN [config |-> old, raised |-> "ValueError"]
    ELSE [config |-> file, raised |-> "none"]

\* an assignment that writes the new entries into the list object
\* self._config["backends"] already is
assign_config_in_place(iterated, data) == data

\* `self._config = data` seen from a loop that got its list from the old
\* self._config: the attribute is bound to a new dict, the old list is as
\* it was
assign_config(iterated, data) == iterated

\* a test's asyncSetUp: backend_registry.load_config_from_disk()
LoadConfig ==
    /\ pc = "idle" /\ rev = "config"
    /\ LET r == load_config_from_disk(config, disk, source)
       IN  /\ config' = r.config
           /\ IF r.raised = "none"
              THEN pc' = pc /\ raised' = raised
              ELSE pc' = "done" /\ raised' = r.raised
    /\ UNCHANGED <<registry, lastCall, rev, source, entry, principal, servers,
                   idx, backends, returned, log, remoteVars, restVars>>

\* build_middleware_tool_registry(current_principal), lines 35-38; the
\* database revision of BackendRegistry has no load_config_from_disk
StartBuild ==
    /\ pc = "idle"
    /\ \E p \in PrincipalsFor(source) : principal' = p
    /\ entry' = "build"
    /\ registry' = EmptyDict
    /\ IF rev = "config"
       THEN LET r == load_config_from_disk(config, disk, source)
            IN  /\ config' = r.config
                /\ IF r.raised = "none"
                   THEN pc' = "get_mcp_servers" /\ raised' = raised
                   ELSE pc' = "done" /\ raised' = r.raised
       ELSE /\ config' = config
            /\ pc' = "done"
            /\ raised' = "AttributeError"
    /\ UNCHANGED <<lastCall, rev, source, servers, idx, backends, returned, log,
                   remoteVars, restVars>>

\* get_mcp_servers(current_principal) called directly
StartServers ==
    /\ pc = "idle"
    /\ \E p \in PrincipalsFor(source) : principal' = p
    /\ entry' = "servers"
    /\ pc' = "get_mcp_servers"
    /\ UNCHANGED <<registry, lastCall, rev, source, config, servers, idx, backends,
                   returned, raised, log, remoteVars, restVars>>

\* get_backends_for_principal up to the for statement: the list iterated is
\* the in-memory config, or the rows load_allowed_servers_for_user returns
EnterLoop ==
    /\ pc = "get_mcp_servers"
    /\ servers' = IF rev = "config" THEN config ELSE source
    /\ idx' = 1
    /\ backends' = << >>
    /\ pc' = "loop"
    /\ UNCHANGED <<registry, lastCall, rev, source, config, entry, principal,
                   returned, raised, log, remoteVars, restVars>>

\* the loop with the `enabled` test missing
iteration_ignoring_enabled(d, i, p, outcome, listing) ==
    IF rev = "config"
    THEN iteration_config([d EXCEPT !.enabled = TRUE], i, p, outcome, listing)
    ELSE iteration_db([d EXCEPT !.enabled = TRUE], i, p, outcome, listing)

\* the loop raising on an unknown factory key instead of skipping
iteration_raising_on_miss(d, i, p, outcome, listing) ==
    IF d.enabled /\ d.kind = "local_mcp_mock" /\ ~factories_get(d.factory)
    THEN Iter(<< >>, <<Ev(i, "lookup")>>, "KeyError")
    ELSE IF rev = "config" THEN iteration_config(d, i, p, outcome, listing)
    ELSE iteration_db(d, i, p, outcome, listing)

\* one iteration of the loop of the installed revision
iteration(d, i, p, outcome, listing) ==
    IF rev = "config" THEN iteration_config(d, i, p, outcome, listing)
    ELSE iteration_db(d, i, p, outcome, listing)

LoopStep ==
    /\ pc = "loop" /\ idx <= Len(servers)
    /\ \E outcome \in Outcomes, listing \in Listings :
          LET it == iteration(servers[idx], idx, principal, outcome, listing)
          IN  /\ log' = log \o it.events
              /\ backends' = backends \o it.append
              /\ IF it.raised = "none"
                 THEN /\ idx' = idx + 1 /\ pc' = pc /\ raised' = raised
                 ELSE /\ idx' = idx /\ pc' = "done" /\ raised' = it.raised
    /\ UNCHANGED <<registry, lastCall, rev, source, config, entry, principal,
                   servers, returned, remoteVars, restVars>>

\* `return result`; get_mcp_servers hands it to its caller
LoopEnd ==
    /\ pc = "loop" /\ idx > Len(servers)
    /\ IF entry = "servers"
       THEN /\ returned' = ReturnBackends(backends) /\ pc' = "done"
       ELSE /\ returned' = returned /\ pc' = "embedding"
    /\ UNCHANGED <<registry, lastCall, rev, source, config, entry, principal,
                   servers, idx, backends, raised, log, remoteVars, restVars>>

\* backends.append(await build_embedding_manager(current_principal))
AppendEmbeddingManager ==
    /\ pc = "embedding"
    /\ LET r == build_embedding_manager(principal)
       IN  IF r.raised = "none"
           THEN /\ backends' = Append(backends, r.val)
                /\ pc' = "register" /\ idx' = 1 /\ raised' = raised
           ELSE /\ backends' = backends
                /\ pc' = "done" /\ idx' = idx /\ raised' = r.raised
    /\ UNCHANGED <<registry, lastCall, rev, source, config, entry, principal,
                   servers, returned, log, remoteVars, restVars>>

\* the body of `for backend in backends`: get_tools() and the inner loop
register_backend(tools, backend) ==
    LET g == get_tools(backend)
    IN  IF g.raised # "none" THEN [tools |-> tools, raised |-> g.raised, p |-> g.p]
        ELSE [tools |-> register_all(tools, g.val).tools,
              raised |-> register_all(tools, g.val).raised, p |-> g.p]

RegisterStep ==
    /\ pc = "register" /\ idx <= Len(backends)
    /\ LET r == register_backend(registry, backends[idx])
       IN  /\ registry' = r.tools
           /\ backends' = [backends EXCEPT ![idx] = r.p]
           /\ IF r.raised = "none"
              THEN /\ idx' = idx + 1 /\ pc' = pc /\ raised' = raised
              ELSE /\ idx' = idx /\ pc' = "done" /\ raised' = r.raised
    /\ UNCHANGED <<lastCall, rev, source, config, entry, principal, servers,
                   returned, log, remoteVars, restVars>>

\* the failure records an entry point hands back beside its result: both
\* entry points return the registry / the list alone
reported_failures(ret) == {}

\* `return registry`
ReturnRegistryStep ==
    /\ pc = "register" /\ idx > Len(backends)
    /\ returned' = ReturnRegistry(registry)
    /\ pc' = "done"
    /\ UNCHANGED <<registry, lastCall, rev, source, config, entry, principal,
                   servers, idx, backends, raised, log, remoteVars, restVars>>

\* the session ends: run() is left, with the registry or with the
\* exception of build_middleware_tool_registry; nothing is called on the
\* backends the aggregation built
SessionEnd ==
    /\ pc = "done" /\ entry = "build"
    /\ pc' = "ended"
    /\ UNCHANGED <<registry, lastCall, rev, source, config, entry, principal,
                   servers, idx, backends, returned, raised, log, remoteVars, restVars>>

NoCall == [op |-> "none", tool |-> RegisteredTool(<< >>, << >>, << >>, 0),
           raised |-> "none"]

FreshRemote == RemoteBackendServer(DEEPWIKI, HttpCfg, 1)

\* what has happened around the directly driven provider: transports the
\* environment opened for it (child processes, HTTP channels), initialize
\* and list_tools exchanges served, exit-stack entries released, calls of
\* connect()/close() made, close() calls that ended, and the lifecycle
\* state these events put it in
NoWorld == [spawned |-> 0, handshakes |-> 0, listings |-> 0, released |-> 0,
            calls |-> 0, closed |-> 0, phase |-> "Disconnected"]

\* the last get_tools() on rb: what it returned or raised, the lifecycle
\* state it was made in, whether it built new handlers, whether no step of
\* connect() or close() has run since (fresh), and whether the get_tools()
\* before it was made on the connected provider with none in between (again)
NoGet == [called |-> FALSE, val |-> << >>, raised |-> "none", phase |-> "Disconnected",
          built |-> FALSE, fresh |-> FALSE, again |-> FALSE]

\* a step of connect() or close() has run since the last get_tools()
Stale(g) == [g EXCEPT !.fresh = FALSE, !.again = FALSE]

\* the call on the provider that ended last: which, how it ended, and the
\* lifecycle state it was made in (for a handler call)
Done(kind, result, phase) == [kind |-> kind, result |-> result, phase |-> phase]

NoDone == Done("none", "none", "Disconnected")

AggIdle ==
    /\ config = << >>
    /\ pc = "idle"
    /\ entry = "none"
    /\ principal = NoPrincipal
    /\ servers = << >>
    /\ idx = 0
    /\ backends = << >>
    /\ returned = NoReturn
    /\ raised = "none"
    /\ log = << >>

RemoteIdle ==
    /\ tasks = << >>
    /\ lastDone = NoDone
    /\ world = NoWorld
    /\ lastGet = NoGet

\* the objects constructed so far (a reference is a position in heap), the
\* calls of build_middleware_tool_registry made so far with the references
\* each of them holds, the session that took the last step, and the outcome
\* of the last tool call
NoSessions == [heap |-> << >>, sess |-> << >>, actor |-> 0, last |-> "none"]

NoResult == [via |-> "none", tool |-> 0, got |-> Obj(0, 0)]

\* hr = MockBackendServer("hr"), nothing added yet
NoLocal == [b |-> MockBackendServer(HR, 1), fns |-> << >>, result |-> NoResult]

NoRuns == [done |-> FALSE, p |-> NoPrincipal, env |-> << >>, perm |-> << >>,
           a |-> [raised |-> "none", tools |-> EmptyDict],
           b |-> [raised |-> "none", tools |-> EmptyDict]]
\* no reload yet; snapshot keeps the list the loop was iterating when the
\* first reload ran
NoReload == [n |-> 0, snapshot |-> None]
\* no tool call made yet on the connected provider
NoChannel == [calls |-> << >>, inflight |-> 0]
\* no stop() has returned yet
NoStop == [valid |-> FALSE, wasRunning |-> FALSE, sent |-> << >>, waited |-> 0,
           exited |-> FALSE, raised |-> "none"]

\* McpProcess not started: the child as the gateway sees it (returncode),
\* the --user and --role it was started with, where the stop() in progress
\* is, the time it has waited, the signals it has sent, all signals the
\* child was sent, the stop() calls made, and the stop() that returned last
NoProc == [child |-> "none", args |-> << >>, pc |-> "idle", clock |-> 0, sent |-> << >>,
           signals |-> << >>, wasRunning |-> FALSE, stops |-> 0, last |-> NoStop]
\* after a login: one refresh token issued (tokens are numbered in the
\* order they are issued), none revoked, no request made
NoAuth == [issued |-> 1, revoked |-> {}, reqs |-> << >>]
\* the request that looked up CHAT_SESSIONS last: its endpoint, the
\* authenticated user, the chat_session_id, the user stored in the session
\* found, and how far it got (a status code, or "tool_call" when it went
\* on to use the session's MCP client)
Looked(endpoint, user, sid, owner, status) ==
    [endpoint |-> endpoint, user |-> user, sid |-> sid, owner |-> owner, status |-> status]

\* CHAT_SESSIONS empty (a chat_session_id is the position of its session)
NoChat == [sessions |-> << >>, last |-> Looked("none", "", 0, None, "none")]

\* nothing obtained yet; `at` keeps what _tools held when list_all() ran
NoHeld == [taken |-> FALSE, obj |-> PyList({}), at |-> {}]

RestIdle ==
    /\ disk = "ok"
    /\ sessions = NoSessions
    /\ local = NoLocal
    /\ held = NoHeld

MoreIdle ==
    /\ runs = NoRuns
    /\ reload = NoReload
    /\ channel = NoChannel
    /\ proc = NoProc
    /\ auth = NoAuth
    /\ chat = NoChat

Init ==
    /\ registry = EmptyDict
    /\ lastCall = NoCall
    /\ rev \in {"config", "db"}
    /\ source \in Sources
    /\ disk \in DiskKinds
    /\ disk # "ok" => rev = "config" /\ source = << >>
    /\ rev = "db" => \A k \in 1..Len(source) : source[k].name # None
    /\ sessions = NoSessions
    /\ local = NoLocal
    /\ held = NoHeld
    /\ MoreIdle
    /\ AggIdle
    /\ rb = FreshRemote
    /\ RemoteIdle

Next ==
    \/ LoadConfig
    \/ StartBuild
    \/ StartServers
    \/ EnterLoop
    \/ LoopStep
    \/ LoopEnd
    \/ AppendEmbeddingManager
    \/ RegisterStep
    \/ ReturnRegistryStep
    \/ SessionEnd

Spec == Init /\ [][Next]_vars

----------------------------------------------------------------------------
(* A ToolRegistry used directly through its API *)

ToolUniverse ==
    {RegisteredTool(Dot(sid, op), sid, op, h) :
        sid \in {HR, DOCSTORE, DOCSTORE_DOCS}, op \in {OpSearch, OpDocSearch},
        h \in 1..NumHandlers}

\* registry.register(tool)
CallRegister ==
    /\ \E tool \in ToolUniverse :
          LET r == register(registry, tool)
          IN  /\ registry' = r.tools
              /\ lastCall' = [op |-> "register", tool |-> tool, raised |-> r.raised]
    /\ UNCHANGED <<aggVars, remoteVars, restVars>>

InitRegistry ==
    /\ registry = EmptyDict
    /\ lastCall = NoCall
    /\ rev = "config"
    /\ source = << >>
    /\ AggIdle
    /\ rb = FreshRemote
    /\ RemoteIdle
    /\ RestIdle
    /\ MoreIdle

NextRegistry == CallRegister

RegistrySpec == InitRegistry /\ [][NextRegistry]_vars

\* snapshot = registry.list_all(), kept by the caller
CallListAll ==
    /\ held' = [taken |-> TRUE, obj |-> PyList(list_all(registry)),
                at |-> list_all(registry)]
    /\ UNCHANGED <<registry, lastCall, aggVars, remoteVars, disk, sessions, local, moreVars>>

NextSnapshot ==
    \/ CallRegister
    \/ CallListAll

SnapshotSpec == InitRegistry /\ [][NextSnapshot]_vars

----------------------------------------------------------------------------
(* A RemoteBackendServer used directly through its API.  connect() and    *)
(* close() are coroutines: each await is a point where another call on    *)
(* the same provider may run.                                             *)

Task(kind, at) == [kind |-> kind, at |-> at]

RemoveAt(seq, k) == SubSeq(seq, 1, k - 1) \o SubSeq(seq, k + 1, Len(seq))

IsRaise(next) ==
    next \in {"ValueError", "NotImplementedError", "ConnectError", "TimeoutError"}

\* a connect() step moved task k to `next`: it stays in flight, or ends
ConnectAdvance(k, next) ==
    IF next = "return" \/ IsRaise(next)
    THEN /\ tasks' = RemoveAt(tasks, k)
         /\ lastDone' = Done("connect", next, world.phase)
    ELSE /\ tasks' = [tasks EXCEPT ![k] = Task("connect", next)]
         /\ lastDone' = lastDone

PhaseAfter(next, old) ==
    IF next = "return" THEN "Connected"
    ELSE IF IsRaise(next) THEN "Failed"
    ELSE old

\* await rb.connect(): the call up to its first await
CallConnect ==
    /\ world.calls < MaxCalls
    /\ LET b == connect_begin(rb)
       IN  /\ IF b = "transport"
              THEN /\ tasks' = Append(tasks, Task("connect", "transport"))
                   /\ lastDone' = lastDone
                   /\ world' = [world EXCEPT !.calls = @ + 1, !.phase = "Connecting"]
              ELSE /\ tasks' = tasks
                   /\ lastDone' = Done("connect", b, world.phase)
                   /\ world' = [world EXCEPT !.calls = @ + 1,
                                             !.phase = IF IsRaise(b) THEN "Failed" ELSE @]
    /\ lastGet' = Stale(lastGet)
    /\ UNCHANGED <<registry, lastCall, aggVars, rb, restVars>>

\* the transport context manager is entered (a process is spawned or a
\* channel opened), or fails
ConnectTransport ==
    /\ \E k \in 1..Len(tasks), ok \in BOOLEAN :
          /\ tasks[k] = Task("connect", "transport")
          /\ LET r == connect_transport(rb, ok)
             IN  /\ rb' = r.p
                 /\ ConnectAdvance(k, r.next)
                 /\ world' = [world EXCEPT !.spawned = IF ok THEN @ + 1 ELSE @,
                                           !.phase = PhaseAfter(r.next, @)]
    /\ lastGet' = Stale(lastGet)
    /\ UNCHANGED <<registry, lastCall, aggVars, restVars>>

\* ClientSession is entered, or fails
ConnectSession ==
    /\ \E k \in 1..Len(tasks), ok \in BOOLEAN :
          /\ tasks[k] = Task("connect", "session")
          /\ LET r == connect_session(rb, ok)
             IN  /\ rb' = r.p
                 /\ ConnectAdvance(k, r.next)
                 /\ world' = [world EXCEPT !.phase = PhaseAfter(r.next, @)]
    /\ lastGet' = Stale(lastGet)
    /\ UNCHANGED <<registry, lastCall, aggVars, restVars>>

\* the initialize exchange completes, or fails
ConnectInitialize ==
    /\ \E k \in 1..Len(tasks), ok \in BOOLEAN :
          /\ tasks[k] = Task("connect", "initialize")
          /\ LET r == connect_initialize(rb, ok)
             IN  /\ rb' = r.p
                 /\ ConnectAdvance(k, r.next)
                 /\ world' = [world EXCEPT !.handshakes = @ + 1,
                                           !.phase = PhaseAfter(r.next, @)]
    /\ lastGet' = Stale(lastGet)
    /\ UNCHANGED <<registry, lastCall, aggVars, restVars>>

\* the list_tools exchange completes, or fails
ConnectListTools ==
    /\ \E k \in 1..Len(tasks), ok \in BOOLEAN, listing \in Listings :
          /\ tasks[k] = Task("connect", "list_tools")
          /\ LET r == connect_list_tools(rb, ok, listing)
             IN  /\ rb' = r.p
                 /\ ConnectAdvance(k, r.next)
                 /\ world' = [world EXCEPT !.listings = @ + 1,
                                           !.phase = PhaseAfter(r.next, @)]
    /\ lastGet' = Stale(lastGet)
    /\ UNCHANGED <<registry, lastCall, aggVars, restVars>>

\* the caller bounds connect() from outside (asyncio.wait_for): when the
\* time is up the coroutine is cancelled at the await it is suspended in;
\* connect() has no handler for that, so the provider stays as it is and
\* the caller gets the timeout
ConnectTimeout ==
    /\ \E k \in 1..Len(tasks) :
          /\ tasks[k].kind = "connect"
          /\ ConnectAdvance(k, "TimeoutError")
          /\ world' = [world EXCEPT !.phase = PhaseAfter("TimeoutError", @)]
    /\ lastGet' = Stale(lastGet)
    /\ UNCHANGED <<registry, lastCall, aggVars, rb, restVars>>

\* await rb.close(): with an empty exit stack aclose() has nothing to wait
\* for and the call runs to its end; otherwise it is suspended in aclose()
CallClose ==
    /\ world.calls < MaxCalls
    /\ IF rb.exit_stack = << >>
       THEN /\ rb' = close_reset(close_aclose(rb))
            /\ tasks' = tasks
            /\ lastDone' = Done("close", "return", world.phase)
            /\ world' = [world EXCEPT !.calls = @ + 1, !.closed = @ + 1,
                                      !.phase = "Closed"]
       ELSE /\ rb' = rb
            /\ tasks' = Append(tasks, Task("close", "aclose"))
            /\ lastDone' = lastDone
            /\ world' = [world EXCEPT !.calls = @ + 1]
    /\ lastGet' = Stale(lastGet)
    /\ UNCHANGED <<registry, lastCall, aggVars, restVars>>

\* aclose() has released what the exit stack held; the assignments follow
CloseFinish ==
    /\ \E k \in 1..Len(tasks) :
          /\ tasks[k] = Task("close", "aclose")
          /\ rb' = close_reset(close_aclose(rb))
          /\ tasks' = RemoveAt(tasks, k)
          /\ lastDone' = Done("close", "return", world.phase)
          /\ world' = [world EXCEPT !.released = @ + Len(rb.exit_stack),
                                    !.closed = @ + 1, !.phase = "Closed"]
    /\ lastGet' = Stale(lastGet)
    /\ UNCHANGED <<registry, lastCall, aggVars, restVars>>

\* rb.get_tools()
CallGetTools ==
    /\ LET r == remote_get_tools(rb)
       IN  /\ rb' = r.p
           /\ lastGet' = [called |-> TRUE, val |-> r.val, raised |-> r.raised,
                          phase |-> world.phase, built |-> r.built,
                          fresh |-> TRUE,
                          again |-> /\ lastGet.fresh /\ lastGet.raised = "none"
                                    /\ lastGet.phase = "Connected"]
    /\ UNCHANGED <<registry, lastCall, aggVars, tasks, lastDone, world, restVars>>

\* await tool.handler(args) for a tool an earlier get_tools() handed out
CallHandler ==
    /\ lastGet.called /\ lastGet.raised = "none" /\ lastGet.val # << >>
    /\ \E optimized \in BOOLEAN, ok \in BOOLEAN :
          lastDone' = Done("call", handler(rb, optimized, ok), world.phase)
    /\ UNCHANGED <<registry, lastCall, aggVars, rb, tasks, world, lastGet, restVars>>

InitRemote ==
    /\ registry = EmptyDict
    /\ lastCall = NoCall
    /\ rev = "config"
    /\ source = << >>
    /\ AggIdle
    /\ rb \in {RemoteBackendServer(DEEPWIKI, cfg, 1) : cfg \in {HttpCfg, StdioCfg, NoCfg, WsCfg}}
    /\ RemoteIdle
    /\ RestIdle
    /\ MoreIdle

NextRemote ==
    \/ CallConnect
    \/ ConnectTransport
    \/ ConnectSession
    \/ ConnectInitialize
    \/ ConnectListTools
    \/ ConnectTimeout
    \/ CallClose
    \/ CloseFinish
    \/ CallGetTools
    \/ CallHandler

RemoteSpec == InitRemote /\ [][NextRemote]_vars

----------------------------------------------------------------------------
(* A MockBackendServer given plain and coroutine functions as handlers.  *)
(* A tool's handler field is the position in local.fns of the callable   *)
(* its wrapper closes over.                                               *)

\* backend.add_tool(name=..., handler=fn)
AddTool ==
    /\ Len(local.fns) < MaxCalls
    /\ \E name \in {OpSearch, OpUpsert, OpGetPolicy},
          kind \in {"def", "async def"}, ret \in 1..NumHandlers :
          local' = [local EXCEPT !.fns = Append(@, Callable(kind, ret)),
                                 !.b = add_tool(@, name, Len(local.fns) + 1)]
    /\ UNCHANGED <<registry, lastCall, aggVars, remoteVars, disk, sessions, held, moreVars>>

\* await tool.handler(args), once, for a tool of backend.get_tools()
AwaitHandler ==
    /\ \E k \in 1..Len(get_tools(local.b).val) :
          LET tool == get_tools(local.b).val[k]
          IN  local' = [local EXCEPT !.result =
                           [via |-> "handler", tool |-> k,
                            got |-> Await(async_handler(local.fns[tool.handler]))]]
    /\ UNCHANGED <<registry, lastCall, aggVars, remoteVars, disk, sessions, held, moreVars>>

\* the middleware's call_tool route for a tool of the backend
HandleCallTool ==
    /\ \E k \in 1..Len(get_tools(local.b).val) :
          LET tool == get_tools(local.b).val[k]
          IN  local' = [local EXCEPT !.result =
                           [via |-> "handle_call_tool", tool |-> k,
                            got |-> handle_call_tool(local.fns[tool.handler])]]
    /\ UNCHANGED <<registry, lastCall, aggVars, remoteVars, disk, sessions, held, moreVars>>

InitLocal ==
    /\ registry = EmptyDict
    /\ lastCall = NoCall
    /\ rev = "config"
    /\ source = << >>
    /\ AggIdle
    /\ rb = FreshRemote
    /\ RemoteIdle
    /\ RestIdle
    /\ MoreIdle

NextLocal ==
    \/ AddTool
    \/ AwaitHandler
    \/ HandleCallTool

LocalSpec == InitLocal /\ [][NextLocal]_vars

----------------------------------------------------------------------------
(* Two aggregations in one process: build_middleware_tool_registry called
   twice, the calls interleaving at their awaits, over the one module-level
   backend_registry *)

\* the aggregations looked at
SessionIds == {1, 2}

\* what backends.json holds
SessionSources ==
    {<<FromShape(ShapeHR, TRUE, <<Admin>>, << >>),
       FromShape(ShapeDeepwiki, TRUE, << >>, << >>)>>,
     <<FromShape(ShapeDocstoreDocs, TRUE, << >>, <<"alice">>)>>}

\* the principals the two calls are made for
SessionPrincipals ==
    {Principal(Some("alice"), RolesStr(Admin), Some(Admin)),
     Principal(Some("bob"), RolesStr(User), Some(User))}

\* what the environment lets a connect() of a session do, what a server lists
SessionOutcomes == {"ok", "fail_initialize"}
SessionListings == {<<OpSearch>>, <<OpSearch, OpAsk>>}

\* an object on the heap: a ToolRegistry (tools), a backend (b, and conn,
\* the reference of the connection its exit stack holds, 0 for none), or
\* the connection to a remote server (open)
Cell(class, tools, b, conn, open) ==
    [class |-> class, tools |-> tools, b |-> b, conn |-> conn, open |-> open]

RegistryCell == Cell("ToolRegistry", EmptyDict, MockBackendServer(<< >>, 0), 0, FALSE)
BackendCell(b, conn) == Cell(b.class, EmptyDict, b, conn, FALSE)
ConnectionCell == Cell("Connection", EmptyDict, MockBackendServer(<< >>, 0), 0, TRUE)

\* a constructor that hands out the one object of the class there is,
\* once there is one
construct_singleton(heap, cell) ==
    IF \E r \in 1..Len(heap) : heap[r].class = cell.class
    THEN [heap |-> heap,
          ref |-> CHOOSE r \in 1..Len(heap) : heap[r].class = cell.class]
    ELSE [heap |-> Append(heap, cell), ref |-> Len(heap) + 1]

\* ToolRegistry(), factory(), MockBackendServer(...), RemoteBackendServer(...),
\* the streams connect() opens: a new object each time
construct(heap, cell) == [heap |-> Append(heap, cell), ref |-> Len(heap) + 1]

\* the frame of one call of build_middleware_tool_registry: its
\* current_principal, where it is, the list its loop iterates over, the
\* position in it, its registry, its backends, the exception that left it
Frame(p, at, it, i, reg, bs, exc) ==
    [principal |-> p, pc |-> at, it |-> it, idx |-> i, registry |-> reg,
     backends |-> bs, raised |-> exc]

\* one more call of build_middleware_tool_registry: load_config_from_disk()
\* on the shared backend_registry, ToolRegistry(), and the loop of
\* get_backends_for_principal entered over the list just loaded
SessStart ==
    /\ Len(sessions.sess) < Cardinality(SessionIds)
    /\ \E p \in SessionPrincipals :
          LET r == load_config_from_disk(config, disk, source)
              c == construct(sessions.heap, RegistryCell)
          IN  /\ config' = r.config
              /\ sessions' =
                   IF r.raised # "none"
                   THEN [sessions EXCEPT
                           !.sess = Append(@, Frame(p, "done", << >>, 0, 0, << >>, r.raised)),
                           !.actor = Len(sessions.sess) + 1]
                   ELSE [sessions EXCEPT
                           !.heap = c.heap,
                           !.sess = Append(@, Frame(p, "loop", r.config, 1, c.ref, << >>, "none")),
                           !.actor = Len(sessions.sess) + 1]
    /\ UNCHANGED <<registry, lastCall, rev, source, pc, entry, principal, servers,
                   idx, backends, returned, raised, log, remoteVars, disk, local, held, moreVars>>

\* the backend an iteration appends, put on the heap; a remote one with the
\* connection its connect() opened
append_backend(heap, b) ==
    IF b.class = "RemoteBackendServer"
    THEN LET c == construct(heap, ConnectionCell)
         IN  construct(c.heap, BackendCell(b, c.ref))
    ELSE construct(heap, BackendCell(b, 0))

\* one iteration of the loop in session s (the remote branch awaits)
SessLoopStep(s) ==
    LET f == sessions.sess[s]
    IN  /\ f.pc = "loop" /\ f.idx <= Len(f.it)
        /\ \E outcome \in SessionOutcomes, listing \in SessionListings :
              LET it == iteration_config(f.it[f.idx], f.idx, f.principal, outcome, listing)
                  a == append_backend(sessions.heap, it.append[1])
              IN  sessions' =
                    IF it.raised # "none"
                    THEN [sessions EXCEPT !.sess[s].pc = "done",
                                          !.sess[s].raised = it.raised,
                                          !.actor = s]
                    ELSE IF it.append = << >>
                    THEN [sessions EXCEPT !.sess[s].idx = @ + 1, !.actor = s]
                    ELSE [sessions EXCEPT !.heap = a.heap,
                                          !.sess[s].backends = Append(@, a.ref),
                                          !.sess[s].idx = @ + 1,
                                          !.actor = s]
        /\ UNCHANGED <<registry, lastCall, aggVars, remoteVars, disk, local, held, moreVars>>

\* `return result`, then backends.append(await build_embedding_manager(...))
SessEmbedding(s) ==
    LET f == sessions.sess[s]
        r == build_embedding_manager(f.principal)
        a == construct(sessions.heap, BackendCell(r.val, 0))
    IN  /\ f.pc = "loop" /\ f.idx > Len(f.it)
        /\ sessions' =
             IF r.raised # "none"
             THEN [sessions EXCEPT !.sess[s].pc = "done", !.sess[s].raised = r.raised,
                                   !.actor = s]
             ELSE [sessions EXCEPT !.heap = a.heap,
                                   !.sess[s].backends = Append(@, a.ref),
                                   !.sess[s].pc = "register", !.sess[s].idx = 1,
                                   !.actor = s]
        /\ UNCHANGED <<registry, lastCall, aggVars, remoteVars, disk, local, held, moreVars>>

\* the body of `for backend in backends` in session s
SessRegisterStep(s) ==
    LET f == sessions.sess[s]
        ref == f.backends[f.idx]
        r == register_backend(sessions.heap[f.registry].tools, sessions.heap[ref].b)
    IN  /\ f.pc = "register" /\ f.idx <= Len(f.backends)
        /\ sessions' =
             [sessions EXCEPT !.heap[f.registry].tools = r.tools,
                              !.heap[ref].b = r.p,
                              !.sess[s].idx = IF r.raised = "none" THEN @ + 1 ELSE @,
                              !.sess[s].pc = IF r.raised = "none" THEN @ ELSE "done",
                              !.sess[s].raised = r.raised,
                              !.actor = s]
        /\ UNCHANGED <<registry, lastCall, aggVars, remoteVars, disk, local, held, moreVars>>

\* `return registry`
SessReturn(s) ==
    LET f == sessions.sess[s]
    IN  /\ f.pc = "register" /\ f.idx > Len(f.backends)
        /\ sessions' = [sessions EXCEPT !.sess[s].pc = "done", !.actor = s]
        /\ UNCHANGED <<registry, lastCall, aggVars, remoteVars, disk, local, held, moreVars>>

\* the tools a caller registers into a registry it was returned
ExtraTools ==
    {RegisteredTool(Dot(DEEPWIKI, OpSearch), DEEPWIKI, OpSearch, 0),
     RegisteredTool(Dot(CRM, OpSearch), CRM, OpSearch, 0)}

\* registry.register(tool) on the registry session s was returned
SessRegister(s) ==
    LET f == sessions.sess[s]
    IN  /\ f.pc = "done" /\ f.raised = "none"
        /\ \E tool \in ExtraTools :
              LET r == register(sessions.heap[f.registry].tools, tool)
              IN  sessions' = [sessions EXCEPT !.heap[f.registry].tools = r.tools,
                                               !.actor = s,
                                               !.last = r.raised]
        /\ UNCHANGED <<registry, lastCall, aggVars, remoteVars, disk, local, held, moreVars>>

\* what awaiting the handler of a tool of the backend at `ref` yields
call_through(heap, ref, optimized, ok) ==
    IF heap[ref].b.class = "RemoteBackendServer"
    THEN handler(heap[ref].b, optimized, ok)
    ELSE "result"

\* await tool.handler(args) for a tool of a backend of session s
SessCall(s) ==
    LET f == sessions.sess[s]
    IN  /\ f.pc = "done" /\ f.raised = "none"
        /\ \E k \in 1..Len(f.backends), optimized \in BOOLEAN, ok \in BOOLEAN :
              /\ get_tools(sessions.heap[f.backends[k]].b).val # << >>
              /\ sessions' = [sessions EXCEPT
                                !.actor = s,
                                !.last = call_through(sessions.heap, f.backends[k],
                                                      optimized, ok)]
        /\ UNCHANGED <<registry, lastCall, aggVars, remoteVars, disk, local, held, moreVars>>

\* await backend.close() on a remote backend of session s, run to its end
SessClose(s) ==
    LET f == sessions.sess[s]
    IN  /\ f.pc = "done"
        /\ \E k \in 1..Len(f.backends) :
              LET ref == f.backends[k]
                  c == sessions.heap[ref]
              IN  /\ c.class = "RemoteBackendServer"
                  /\ sessions' = [sessions EXCEPT
                                    !.heap[ref].b = close_reset(close_aclose(c.b)),
                                    !.heap[c.conn].open = FALSE,
                                    !.actor = s,
                                    !.last = "closed"]
        /\ UNCHANGED <<registry, lastCall, aggVars, remoteVars, disk, local, held, moreVars>>

InitSessions ==
    /\ registry = EmptyDict
    /\ lastCall = NoCall
    /\ rev = "config"
    /\ source \in SessionSources
    /\ AggIdle
    /\ rb = FreshRemote
    /\ RemoteIdle
    /\ RestIdle
    /\ MoreIdle

NextSessions ==
    \/ SessStart
    \/ \E s \in 1..Len(sessions.sess) :
          \/ SessLoopStep(s)
          \/ SessEmbedding(s)
          \/ SessRegisterStep(s)
          \/ SessReturn(s)
          \/ SessRegister(s)
          \/ SessCall(s)
          \/ SessClose(s)

SessionsSpec == InitSessions /\ [][NextSessions]_vars

----------------------------------------------------------------------------
(* build_middleware_tool_registry as a function of the descriptor list, the
   principal and what each remote server does, applied to two orderings of
   one descriptor list *)

\* the loop of get_backends_for_principal from position i on; env gives,
\* per descriptor, how its connect() ends and what its server lists
RECURSIVE get_backends_from(_, _, _, _, _)
get_backends_from(cfg, i, p, env, result) ==
    IF i > Len(cfg) THEN [val |-> result, raised |-> "none"]
    ELSE LET it == iteration_config(cfg[i], i, p, env[cfg[i]].outcome, env[cfg[i]].listing)
         IN  IF it.raised # "none" THEN [val |-> result, raised |-> it.raised]
             ELSE get_backends_from(cfg, i + 1, p, env, result \o it.append)

\* `for backend in backends: for tool in backend.get_tools(): register`
RECURSIVE register_backends(_, _)
register_backends(tools, bs) ==
    IF bs = << >> THEN [tools |-> tools, raised |-> "none"]
    ELSE LET r == register_backend(tools, Head(bs))
         IN  IF r.raised # "none" THEN [tools |-> r.tools, raised |-> r.raised]
             ELSE register_backends(r.tools, Tail(bs))

\* build_middleware_tool_registry over the loaded list cfg: the registry
\* returned, or the exception raised
build_middleware_tool_registry(cfg, p, env) ==
    LET g == get_backends_from(cfg, 1, p, env, << >>)
        e == build_embedding_manager(p)
    IN  IF g.raised # "none" THEN [raised |-> g.raised, tools |-> EmptyDict]
        ELSE IF e.raised # "none" THEN [raised |-> e.raised, tools |-> EmptyDict]
        ELSE register_backends(EmptyDict, Append(g.val, e.val))

\* the descriptors the orderings are made of
OrderPool ==
    {FromShape(ShapeHR, TRUE, << >>, << >>),
     FromShape(ShapeHR, TRUE, <<Admin>>, << >>),
     FromShape(ShapeDeepwiki, TRUE, << >>, << >>),
     FromShape(ShapeDocstoreDocs, TRUE, << >>, <<"alice">>),
     FromShape(ShapeNameless, TRUE, << >>, << >>)}

OrderSources == {src \in SeqsUpTo(OrderPool, MaxDescriptors) : Len(src) >= 2}

\* what a server does: whatever the position of its descriptor
Behaviours ==
    [outcome : {"ok", "fail_initialize"}, listing : {<<OpAsk>>, <<OpSearch>>}]
LocalBehaviour == [outcome |-> "ok", listing |-> << >>]

Envs(src) ==
    {env \in [{src[k] : k \in 1..Len(src)} -> Behaviours \cup {LocalBehaviour}] :
        \A k \in 1..Len(src) :
           env[src[k]] = LocalBehaviour <=> src[k].kind # "remote_mcp"}

Perms(n) == {f \in [1..n -> 1..n] : \A i, j \in 1..n : f[i] = f[j] => i = j}

Permuted(src, perm) == [k \in 1..Len(src) |-> src[perm[k]]]

\* the two aggregations: over backends.json as it is, and over a
\* reordering of it
AggregateBoth ==
    /\ ~runs.done
    /\ \E perm \in Perms(Len(source)) :
          runs' = [runs EXCEPT
                     !.done = TRUE,
                     !.perm = perm,
                     !.a = build_middleware_tool_registry(source, runs.p, runs.env),
                     !.b = build_middleware_tool_registry(Permuted(source, perm),
                                                          runs.p, runs.env)]
    /\ UNCHANGED <<registry, lastCall, aggVars, remoteVars, disk, sessions, local, held,
                   reload, channel, proc, auth, chat>>

InitOrder ==
    /\ registry = EmptyDict
    /\ lastCall = NoCall
    /\ rev = "config"
    /\ source \in OrderSources
    /\ AggIdle
    /\ rb = FreshRemote
    /\ RemoteIdle
    /\ RestIdle
    /\ \E p \in CorePrincipals, env \in Envs(source) :
          runs = [NoRuns EXCEPT !.p = p, !.env = env]
    /\ reload = NoReload
    /\ channel = NoChannel
    /\ proc = NoProc
    /\ auth = NoAuth
    /\ chat = NoChat

NextOrder == AggregateBoth

OrderSpec == InitOrder /\ [][NextOrder]_vars

----------------------------------------------------------------------------
(* An aggregation with backend_registry.load_config_from_disk() called by
   someone else while get_backends_for_principal is suspended in its loop *)

\* what backends.json holds when the aggregation starts
ReloadStarts ==
    {<<FromShape(ShapeHR, TRUE, << >>, << >>), FromShape(ShapeDeepwiki, TRUE, << >>, << >>)>>,
     <<FromShape(ShapeDeepwiki, TRUE, << >>, << >>), FromShape(ShapeDocs, TRUE, << >>, << >>)>>}

\* what it holds when it is read again
ReloadSources ==
    {<< >>,
     <<FromShape(ShapeDocstoreDocs, TRUE, << >>, <<"alice">>)>>,
     <<FromShape(ShapeDeepwiki, TRUE, << >>, << >>), FromShape(ShapeHR, TRUE, << >>, << >>)>>}

\* load_config_from_disk() while the loop of the aggregation is suspended
\* at the await of a connect()
Reload ==
    /\ pc = "loop" /\ rev = "config"
    /\ reload.n < MaxCalls
    /\ \E file \in ReloadSources :
          LET r == load_config_from_disk(config, disk, file)
          IN  /\ r.raised = "none"
              /\ source' = file
              /\ config' = r.config
              /\ servers' = assign_config(servers, r.config)
    /\ reload' = [n |-> reload.n + 1,
                  snapshot |-> IF reload.n = 0 THEN Some(servers) ELSE reload.snapshot]
    /\ UNCHANGED <<registry, lastCall, rev, pc, entry, principal, idx, backends,
                   returned, raised, log, remoteVars, disk, sessions, local, held,
                   runs, channel, proc, auth, chat>>

InitReload ==
    /\ registry = EmptyDict
    /\ lastCall = NoCall
    /\ rev = "config"
    /\ source \in ReloadStarts
    /\ AggIdle
    /\ rb = FreshRemote
    /\ RemoteIdle
    /\ RestIdle
    /\ MoreIdle

NextReload ==
    \/ Next
    \/ Reload

ReloadSpec == InitReload /\ [][NextReload]_vars

----------------------------------------------------------------------------
(* Tool calls after a successful aggregation: handlers of one connected
   RemoteBackendServer and of a MockBackendServer, awaited directly or
   through handle_call_tool, several at a time *)

\* the provider the remote tools belong to, connected
ConnectedRemote == connect(FreshRemote, "ok", <<OpSearch, OpAsk>>).p

\* a handler given to add_tool, called: it returns or it raises
local_handler(raises) == IF raises THEN "Exception" ELSE "result"

\* handle_call_tool(name, arguments): ValueError for a name registry.get
\* does not know, else whatever `await tool.handler(arguments)` returns or
\* raises (nothing is caught)
call_by_name(found, outcome) == IF ~found THEN "ValueError" ELSE outcome

\* one tool call: the entry point it came through, the backend of the tool,
\* where it is (its request written and the response awaited, or ended),
\* and what left the entry point
Call(via, backend, at, out) == [via |-> via, backend |-> backend, at |-> at, out |-> out]

Entries == {"handler", "handle_call_tool"}

\* a handler of the remote provider is awaited: `await
\* self._session.call_tool(...)` writes the request on the provider's
\* channel and waits for the response to it
InvokeRemote ==
    /\ Len(channel.calls) < MaxCalls
    /\ ConnectedRemote.session # "None"
    /\ \E via \in Entries :
          channel' = [calls |-> Append(channel.calls, Call(via, "remote", "sent", "none")),
                      inflight |-> channel.inflight + 1]
    /\ UNCHANGED <<registry, lastCall, aggVars, remoteVars, disk, sessions, local, held,
                   runs, reload, proc, auth, chat>>

\* the server answers a request: with a result, or with a protocol error
\* that call_tool raises
Respond ==
    /\ \E k \in 1..Len(channel.calls), ok \in BOOLEAN :
          /\ channel.calls[k].at = "sent"
          /\ channel' = [calls |-> [channel.calls EXCEPT
                                      ![k].at = "ended",
                                      ![k].out = call_by_name(TRUE,
                                                   handler(ConnectedRemote, FALSE, ok))],
                         inflight |-> channel.inflight - 1]
    /\ UNCHANGED <<registry, lastCall, aggVars, remoteVars, disk, sessions, local, held,
                   runs, reload, proc, auth, chat>>

\* a handler of a local provider is awaited
InvokeLocal ==
    /\ Len(channel.calls) < MaxCalls
    /\ \E via \in Entries, raises \in BOOLEAN :
          channel' = [channel EXCEPT !.calls =
                        Append(@, Call(via, "local", "ended",
                                       call_by_name(TRUE, local_handler(raises))))]
    /\ UNCHANGED <<registry, lastCall, aggVars, remoteVars, disk, sessions, local, held,
                   runs, reload, proc, auth, chat>>

\* handle_call_tool with a name that is not registered
InvokeUnknown ==
    /\ Len(channel.calls) < MaxCalls
    /\ channel' = [channel EXCEPT !.calls =
                     Append(@, Call("handle_call_tool", "none", "ended",
                                    call_by_name(FALSE, "none")))]
    /\ UNCHANGED <<registry, lastCall, aggVars, remoteVars, disk, sessions, local, held,
                   runs, reload, proc, auth, chat>>

InitChannel ==
    /\ registry = EmptyDict
    /\ lastCall = NoCall
    /\ rev = "config"
    /\ source = << >>
    /\ AggIdle
    /\ rb = FreshRemote
    /\ RemoteIdle
    /\ RestIdle
    /\ MoreIdle

NextChannel ==
    \/ InvokeRemote
    \/ Respond
    \/ InvokeLocal
    \/ InvokeUnknown

ChannelSpec == InitChannel /\ [][NextChannel]_vars

----------------------------------------------------------------------------
(* McpProcess (components/gateway/app/mcp_process.py): the child process of
   a chat session and stop() on it.  The child is what the gateway sees of
   it: running while proc.returncode is None, exited afterwards. *)

\* what stop() sends whatever proc.returncode is
stop_begin_unchecked(child) == <<"TERM">>

\* `if self.proc.returncode is None: self.proc.terminate()`
stop_begin(child) == IF child = "running" THEN <<"TERM">> ELSE << >>

\* `except asyncio.TimeoutError: self.proc.kill()`
stop_timeout(child) == <<"KILL">>

\* McpProcess.start: the middleware is spawned
StartProcess ==
    /\ proc.child = "none"
    /\ \E username \in {"alice", "bob"}, role \in {Admin, User} :
          proc' = [proc EXCEPT !.child = "running", !.args = <<username, role>>]
    /\ UNCHANGED <<registry, lastCall, aggVars, remoteVars, disk, sessions, local, held,
                   runs, reload, channel, auth, chat>>

\* the child exits: by itself, on the termination signal, on the kill
ChildExits ==
    /\ proc.child = "running"
    /\ proc' = [proc EXCEPT !.child = "exited"]
    /\ UNCHANGED <<registry, lastCall, aggVars, remoteVars, disk, sessions, local, held,
                   runs, reload, channel, auth, chat>>

\* await process.stop(), up to the await of wait_for; on a child that has
\* exited it returns at once
CallStop ==
    /\ proc.child # "none" /\ proc.pc = "idle"
    /\ proc.stops < MaxCalls
    /\ LET sig == stop_begin(proc.child)
       IN  proc' =
             IF proc.child = "running"
             THEN [proc EXCEPT !.pc = "waiting", !.clock = 0, !.sent = sig,
                               !.signals = @ \o sig,
                               !.wasRunning = TRUE, !.stops = @ + 1]
             ELSE [proc EXCEPT !.stops = @ + 1, !.signals = @ \o sig,
                               !.last = [valid |-> TRUE, wasRunning |-> FALSE, sent |-> sig,
                                         waited |-> 0, exited |-> TRUE, raised |-> "none"]]
    /\ UNCHANGED <<registry, lastCall, aggVars, remoteVars, disk, sessions, local, held,
                   runs, reload, channel, auth, chat>>

\* a second passes while wait_for(self.proc.wait(), timeout=3) waits
Tick ==
    /\ proc.pc = "waiting" /\ proc.child = "running"
    /\ proc.clock < StopTimeout
    /\ proc' = [proc EXCEPT !.clock = @ + 1]
    /\ UNCHANGED <<registry, lastCall, aggVars, remoteVars, disk, sessions, local, held,
                   runs, reload, channel, auth, chat>>

\* proc.wait() returns within the timeout; stop() returns
WaitReturns ==
    /\ proc.pc = "waiting" /\ proc.child = "exited"
    /\ proc' = [proc EXCEPT !.pc = "idle",
                            !.last = [valid |-> TRUE, wasRunning |-> proc.wasRunning,
                                      sent |-> proc.sent, waited |-> proc.clock,
                                      exited |-> TRUE, raised |-> "none"]]
    /\ UNCHANGED <<registry, lastCall, aggVars, remoteVars, disk, sessions, local, held,
                   runs, reload, channel, auth, chat>>

\* wait_for raises TimeoutError; the child is killed and stop() returns
\* without waiting for it
WaitTimesOut ==
    /\ proc.pc = "waiting" /\ proc.child = "running"
    /\ proc.clock = StopTimeout
    /\ proc' = [proc EXCEPT !.pc = "idle",
                            !.signals = @ \o stop_timeout(proc.child),
                            !.last = [valid |-> TRUE, wasRunning |-> proc.wasRunning,
                                      sent |-> proc.sent \o stop_timeout(proc.child),
                                      waited |-> proc.clock,
                                      exited |-> FALSE, raised |-> "none"]]
    /\ UNCHANGED <<registry, lastCall, aggVars, remoteVars, disk, sessions, local, held,
                   runs, reload, channel, auth, chat>>

InitProc ==
    /\ registry = EmptyDict
    /\ lastCall = NoCall
    /\ rev = "config"
    /\ source = << >>
    /\ AggIdle
    /\ rb = FreshRemote
    /\ RemoteIdle
    /\ RestIdle
    /\ MoreIdle

NextProc ==
    \/ StartProcess
    \/ ChildExits
    \/ CallStop
    \/ Tick
    \/ WaitReturns
    \/ WaitTimesOut

ProcSpec == InitProc /\ [][NextProc]_vars

----------------------------------------------------------------------------
(* /api/auth/refresh and /api/auth/logout (components/gateway/app/main.py).
   Both are plain `def` endpoints, which the framework runs in worker
   threads: two requests interleave between their statements. *)

\* a request: its endpoint, the refresh token in its cookie (0: none), and
\* where it is ("passed": auth_refresh is past its revocation test)
Req(kind, token, at) == [kind |-> kind, token |-> token, at |-> at]

\* `if refresh_token in REVOKED_REFRESH_TOKENS: raise HTTPException(401)`
refresh_check(revoked, token) == IF token \in revoked THEN "401" ELSE "passed"

\* auth_refresh up to and including its revocation test
RefreshBegin ==
    /\ Len(auth.reqs) < MaxCalls
    /\ \E token \in 1..auth.issued :
          auth' = [auth EXCEPT !.reqs =
                     Append(@, Req("refresh", token, refresh_check(auth.revoked, token)))]
    /\ UNCHANGED <<registry, lastCall, aggVars, remoteVars, disk, sessions, local, held,
                   runs, reload, channel, proc, chat>>

\* the rest of auth_refresh: the new tokens are created, the old one is
\* added to REVOKED_REFRESH_TOKENS, the response sets the new cookies
RefreshEnd ==
    /\ \E k \in 1..Len(auth.reqs) :
          /\ auth.reqs[k].at = "passed"
          /\ auth' = [auth EXCEPT !.reqs[k].at = "ok",
                                  !.revoked = @ \cup {auth.reqs[k].token},
                                  !.issued = @ + 1]
    /\ UNCHANGED <<registry, lastCall, aggVars, remoteVars, disk, sessions, local, held,
                   runs, reload, channel, proc, chat>>

\* auth_logout: the cookie's token, when there is one, is revoked
Logout ==
    /\ Len(auth.reqs) < MaxCalls
    /\ \E token \in 0..auth.issued :
          auth' = [auth EXCEPT !.reqs = Append(@, Req("logout", token, "ok")),
                               !.revoked = IF token # 0 THEN @ \cup {token} ELSE @]
    /\ UNCHANGED <<registry, lastCall, aggVars, remoteVars, disk, sessions, local, held,
                   runs, reload, channel, proc, chat>>

InitAuth ==
    /\ registry = EmptyDict
    /\ lastCall = NoCall
    /\ rev = "config"
    /\ source = << >>
    /\ AggIdle
    /\ rb = FreshRemote
    /\ RemoteIdle
    /\ RestIdle
    /\ MoreIdle

NextAuth ==
    \/ RefreshBegin
    \/ RefreshEnd
    \/ Logout

AuthSpec == InitAuth /\ [][NextAuth]_vars

----------------------------------------------------------------------------
(* CHAT_SESSIONS and the endpoints that look a session up
   (components/gateway/app/main.py) *)

\* the chat sessions looked at
ChatIds == {1, 2}

\* the authenticated principal of a request: payload of its access token
GatewayPrincipals == [sub : {"alice", "bob"}, role : {"admin", "user"}]

\* _require_admin(principal)
require_admin(caller) == caller.role \in {"admin", "super-admin"}

\* chat_bootstrap: a new MCPClient for the principal, stored under a new
\* chat_session_id; tools: the names its middleware exposes
ChatBootstrap ==
    /\ Len(chat.sessions) < Cardinality(ChatIds)
    /\ \E caller \in GatewayPrincipals,
          tools \in {{"document_retrieval.search"},
                     {"document_retrieval.search", "document_retrieval.upsert"}} :
          chat' = [chat EXCEPT !.sessions =
                     Append(@, [user |-> caller.sub, role |-> caller.role,
                                tools |-> tools])]
    /\ UNCHANGED <<registry, lastCall, aggVars, remoteVars, disk, sessions, local, held,
                   runs, reload, channel, proc, auth>>

\* api_chat up to its use of the session's MCP client
api_chat(sessions_, caller, sid) ==
    IF sid = 0 THEN Looked("chat", caller.sub, sid, None, "400")
    ELSE IF sid > Len(sessions_) THEN Looked("chat", caller.sub, sid, None, "404")
    ELSE IF sessions_[sid].user # caller.sub
    THEN Looked("chat", caller.sub, sid, Some(sessions_[sid].user), "403")
    ELSE IF "document_retrieval.search" \notin sessions_[sid].tools
    THEN Looked("chat", caller.sub, sid, Some(sessions_[sid].user), "401")
    ELSE Looked("chat", caller.sub, sid, Some(sessions_[sid].user), "tool_call")

\* upload_documents up to its use of the session's MCP client
upload_documents(sessions_, caller, sid) ==
    IF ~require_admin(caller) THEN Looked("upload", caller.sub, sid, None, "403")
    ELSE IF sid = 0 \/ sid > Len(sessions_)
    THEN Looked("upload", caller.sub, sid, None, "400")
    ELSE IF "document_retrieval.upsert" \notin sessions_[sid].tools
    THEN Looked("upload", caller.sub, sid, Some(sessions_[sid].user), "401")
    ELSE Looked("upload", caller.sub, sid, Some(sessions_[sid].user), "tool_call")

\* POST /api/chat
ApiChat ==
    /\ \E caller \in GatewayPrincipals, sid \in 0..Cardinality(ChatIds) :
          chat' = [chat EXCEPT !.last = api_chat(chat.sessions, caller, sid)]
    /\ UNCHANGED <<registry, lastCall, aggVars, remoteVars, disk, sessions, local, held,
                   runs, reload, channel, proc, auth>>

\* POST /api/admin/documents/upload
UploadDocuments ==
    /\ \E caller \in GatewayPrincipals, sid \in 0..Cardinality(ChatIds) :
          chat' = [chat EXCEPT !.last = upload_documents(chat.sessions, caller, sid)]
    /\ UNCHANGED <<registry, lastCall, aggVars, remoteVars, disk, sessions, local, held,
                   runs, reload, channel, proc, auth>>

InitChat ==
    /\ registry = EmptyDict
    /\ lastCall = NoCall
    /\ rev = "config"
    /\ source = << >>
    /\ AggIdle
    /\ rb = FreshRemote
    /\ RemoteIdle
    /\ RestIdle
    /\ MoreIdle

NextChat ==
    \/ ChatBootstrap
    \/ ApiChat
    \/ UploadDocuments

ChatSpec == InitChat /\ [][NextChat]_vars

----------------------------------------------------------------------------
(* Claims about ToolRegistry *)

\* C1: ToolRegistry.register never overwrites.  A call whose tool.id is
\* already a key raises the duplicate error and leaves _tools unchanged;
\* any other call adds exactly that tool under its id; an id once present
\* keeps the tool first registered under it, and every key is the id of
\* the tool stored under it.
C1_RegisterNeverOverwrites ==
    [][/\ lastCall'.op = "register"
       /\ IF lastCall'.tool.id \in DOMAIN registry
          THEN lastCall'.raised = "ValueError" /\ registry' = registry
          ELSE /\ lastCall'.raised = "none"
               /\ DOMAIN registry' = DOMAIN registry \cup {lastCall'.tool.id}
               /\ registry'[lastCall'.tool.id] = lastCall'.tool
       /\ \A id \in DOMAIN registry :
             id \in DOMAIN registry' /\ registry'[id] = registry[id]
       /\ \A id \in DOMAIN registry' : registry'[id].id = id]_vars

\* a duplicate id was presented with another tool and was refused
C1_Witness ==
    /\ lastCall.op = "register"
    /\ lastCall.raised = "ValueError"
    /\ lastCall.tool.id \in DOMAIN registry
    /\ registry[lastCall.tool.id] # lastCall.tool

\* C19: a list obtained from list_all() keeps exactly the elements the
\* registry held when it was called, whatever is registered afterwards,
\* and get(id) still returns each of them.
C19_ListAllIsSnapshot ==
    held.taken =>
        /\ Elements(held.obj, registry) = held.at
        /\ \A t \in Elements(held.obj, registry) : get(registry, t.id) = Some(t)

\* a non-empty list was obtained and a tool was registered after that
C19_Witness ==
    /\ held.taken /\ held.at # {}
    /\ lastCall.op = "register" /\ lastCall.raised = "none"
    /\ lastCall.tool \notin held.at
    /\ lastCall.tool \in list_all(registry)

----------------------------------------------------------------------------
(* Claims about aggregation *)

SeqRange(q) == {q[k] : k \in 1..Len(q)}

\* the tools a backend object of the list yields
BackendTools(b) ==
    IF b.class = "MockBackendServer" THEN b.tools ELSE Wrap(b, b.tools_mcp)

\* positions in `backends` of the backends built for descriptor i
BackendOf(i) == {k \in 1..Len(backends) : backends[k].src = i}

HasEvent(i, what) == \E k \in 1..Len(log) : log[k] = Ev(i, what)

\* the tools descriptor i exposes: those its factory builds, or those its
\* server listed
ExposedTools(i) ==
    IF servers[i].kind = "local_mcp_mock"
    THEN IF servers[i].factory \in FactoryKeys
         THEN SeqRange(factory_call(servers[i].factory, i).tools)
         ELSE {}
    ELSE IF servers[i].kind = "remote_mcp"
    THEN UNION {SeqRange(BackendTools(backends[k])) : k \in BackendOf(i)}
    ELSE {}

\* enabled and admitted by the two checks of the filter
Admitted(i) ==
    /\ servers[i].enabled
    /\ has_role(servers[i], principal)
    /\ user_allowed(servers[i], principal)

\* the tools of the document_store backend every registry starts from
BuiltinTools ==
    {RegisteredTool(Dot(DOCSTORE, OpDocSearch), DOCSTORE, OpDocSearch, 0)}
    \cup (IF principal.role = Some(Admin)
          THEN {RegisteredTool(Dot(DOCSTORE, OpDocUpsert), DOCSTORE, OpDocUpsert, 0)}
          ELSE {})

\* C2 as stated: the returned registry holds the id "X.Y" iff some
\* descriptor named X is enabled, passes the filter for the principal and
\* exposes Y, and holds nothing else.
C2_Original ==
    returned.kind = "registry" =>
        DOMAIN returned.tools =
            UNION {{Dot(servers[i].name, t.name) : t \in ExposedTools(i)} :
                      i \in {j \in 1..Len(servers) : Admitted(j)}}

\* C2 amended: the returned registry holds exactly the tools exposed by the
\* enabled descriptors the filter admits, each under the id
\* "<server id of its backend>.<operation>", together with the tools of the
\* built-in document_store backend (documents.search for every principal,
\* documents.upsert for role admin).
C2_RegistryIsAdmittedPlusBuiltin ==
    returned.kind = "registry" =>
        /\ list_all(returned.tools) =
              UNION {ExposedTools(i) : i \in {j \in 1..Len(servers) : Admitted(j)}}
              \cup BuiltinTools
        /\ \A id \in DOMAIN returned.tools :
              /\ returned.tools[id].id = id
              /\ id = Dot(returned.tools[id].server_id, returned.tools[id].name)

\* a registry was returned for a source with one admitted and one excluded descriptor
C2_Witness ==
    /\ returned.kind = "registry"
    /\ \E i, j \in 1..Len(servers) :
          /\ Admitted(i) /\ ExposedTools(i) # {}
          /\ servers[j].enabled /\ ~Admitted(j) /\ ExposedTools(j) # {}

\* membership of the principal's role in required_roles, of its user id in
\* allowed_users, as the claim words the rule
ClaimAllows(d, p) ==
    /\ \/ d.required_roles = << >>
       \/ p.roles.t = "str" /\ PyInList(p.roles.s, d.required_roles)
       \/ p.roles.t = "list" /\ \E k \in 1..Len(p.roles.l) : PyInList(p.roles.l[k], d.required_roles)
    /\ \/ d.allowed_users = << >>
       \/ PyInList(principal_user_id(p), d.allowed_users)

\* C3: the filter admits an enabled descriptor exactly when the principal's
\* role is a member of required_roles (or that is empty) and its user id a
\* member of allowed_users (or that is empty).
C3_FilterIsMembership ==
    rev = "config" =>
        \A i \in 1..Len(servers) :
            HasEvent(i, "auth") /\ servers[i].kind \in {"local_mcp_mock", "remote_mcp"} =>
                ((HasEvent(i, "factory") \/ HasEvent(i, "connect"))
                    <=> ClaimAllows(servers[i], principal))

\* C4: a descriptor with enabled = false is passed over before anything is
\* done with it: no factory lookup, no authorization check, no factory
\* call, no connect(), no backend and no tool, in either revision.
C4_DisabledNeverUsed ==
    \A i \in 1..Len(servers) :
        ~servers[i].enabled =>
            /\ \A k \in 1..Len(log) : log[k].i # i
            /\ BackendOf(i) = {}
            /\ \A id \in DOMAIN registry : registry[id].handler # i
            /\ \A id \in DOMAIN returned.tools : returned.tools[id].handler # i
            /\ \A k \in 1..Len(returned.backends) : returned.backends[k].src # i

\* an aggregation ended over a disabled descriptor that the filter would
\* have admitted, next to one that produced a backend
C4_Witness ==
    /\ pc = "done" /\ returned.kind # "none"
    /\ \E i, j \in 1..Len(servers) :
          /\ ~servers[i].enabled
          /\ has_role(servers[i], principal) /\ user_allowed(servers[i], principal)
          /\ servers[i].kind = "remote_mcp"
          /\ BackendOf(j) # {}

\* connect() was called for descriptor i and left no backend
ConnectFailedAt(i) == HasEvent(i, "connect") /\ BackendOf(i) = {}

\* C5: when connect() fails for one remote descriptor (its transport,
\* handshake or listing fails) next to a descriptor that produced a
\* backend, the aggregation still completes, returns a result without the
\* failed backend's tools and reports a failure record naming it.
C5_PartialSuccess ==
    \A i, j \in 1..Len(servers) :
        /\ pc = "done" /\ ConnectFailedAt(i)
        /\ connect_begin(RemoteBackendServer(servers[i].name, servers[i].cfg, i)) = "transport"
        /\ j # i /\ BackendOf(j) # {}
        => /\ raised = "none"
           /\ returned.kind # "none"
           /\ servers[i].name \in reported_failures(returned)
           /\ \A id \in DOMAIN returned.tools : returned.tools[id].handler # i

\* an enabled local descriptor whose factory key is not in the table
IsFactoryMiss(d) ==
    d.enabled /\ d.kind = "local_mcp_mock" /\ d.factory \notin FactoryKeys

Offending(k, l) ==
    /\ k # l
    /\ \E t1 \in SeqRange(BackendTools(backends[k])), t2 \in SeqRange(BackendTools(backends[l])) :
          t1.server_id = t2.server_id /\ t1.name = t2.name

\* build_middleware_tool_registry got as far as its register loop
RegistrationStarted == entry = "build" /\ \E k \in 1..Len(backends) : backends[k].src = 0

RepeatsItself(k) ==
    \E a, b \in 1..Len(BackendTools(backends[k])) :
        a # b /\ BackendTools(backends[k])[a].id = BackendTools(backends[k])[b].id

C8_Original ==
    \A k, l \in 1..Len(backends) :
        backends[k].server_id # backends[l].server_id =>
            \A t1 \in SeqRange(BackendTools(backends[k])),
               t2 \in SeqRange(BackendTools(backends[l])) : t1.id # t2.id

\* no two tools of the backend list share an id
AllIdsDistinct ==
    /\ \A k, l \in 1..Len(backends) :
          k # l => \A t1 \in SeqRange(BackendTools(backends[k])),
                      t2 \in SeqRange(BackendTools(backends[l])) : t1.id # t2.id
    /\ \A k \in 1..Len(backends) :
          \A a, b \in 1..Len(BackendTools(backends[k])) :
              a # b => BackendTools(backends[k])[a].id # BackendTools(backends[k])[b].id

\* C8 amended: every tool id is "<server_id>.<name>"; two backends with
\* different server ids that expose an operation of the same name get two
\* distinct ids, and when all ids are distinct registration ends without a
\* duplicate error; tools of backends with different server ids share an
\* id only when one of the operation names itself contains a ".".
C8_NamespacedIds ==
    /\ \A k, l \in 1..Len(backends) :
          \A t1 \in SeqRange(BackendTools(backends[k])),
             t2 \in SeqRange(BackendTools(backends[l])) :
              /\ t1.id = Dot(backends[k].server_id, t1.name)
              /\ backends[k].server_id # backends[l].server_id =>
                    /\ t1.name = t2.name => t1.id # t2.id
                    /\ t1.id = t2.id => Len(t1.name) > 1 \/ Len(t2.name) > 1
    /\ pc = "done" /\ RegistrationStarted /\ AllIdsDistinct =>
          raised = "none" /\ returned.kind = "registry"

\* a registry was returned that holds "search" of two different backends
C8_Witness ==
    /\ returned.kind = "registry"
    /\ Dot(DOCRET, OpSearch) \in DOMAIN returned.tools
    /\ Dot(DEEPWIKI, OpSearch) \in DOMAIN returned.tools

----------------------------------------------------------------------------
(* Claims about RemoteBackendServer *)

\* C9: get_tools() returns a list only in state Connected; in every other
\* state it raises.
C9_ToolsOnlyWhenConnected ==
    lastGet.called /\ lastGet.raised = "none" => lastGet.phase = "Connected"

\* C10: connect() is accepted only in state Disconnected, so one provider
\* never opens a second transport or runs a second handshake.
C10_ConnectOnlyOnce ==
    world.spawned <= 1 /\ world.handshakes <= 1

\* C11: when a connect() that failed at one of its awaits hands its
\* exception to the caller -- no other call on the provider in flight --
\* the provider is in state Failed, holds no session, and everything the
\* call put on the exit stack (process, channel, session) is released.
C11_FailedConnectReleases ==
    [][/\ lastDone'.kind = "connect" /\ lastDone'.result = "ConnectError"
       /\ Len(tasks) = 1 /\ tasks' = << >>
       => /\ world'.phase = "Failed"
          /\ rb'.exit_stack = << >>
          /\ rb'.session = "None"]_vars

\* a close() call is made: it ends at once or is suspended in aclose()
IsCloseCall ==
    /\ world'.calls = world.calls + 1
    /\ \/ tasks' = Append(tasks, Task("close", "aclose"))
       \/ tasks' = tasks /\ lastDone'.kind = "close"

\* C12: close() on a provider that a close() already closed, with no call
\* in flight, ends at once without raising, releases nothing and leaves
\* the provider exactly as the first close() left it.
C12_CloseIdempotent ==
    [][world.phase = "Closed" /\ world.closed >= 1 /\ tasks = << >> /\ IsCloseCall
       => /\ lastDone' = Done("close", "return", "Closed")
          /\ tasks' = << >>
          /\ rb' = rb
          /\ world'.released = world.released
          /\ world'.phase = "Closed"]_vars

\* a provider that was connected has been closed twice, the first close()
\* releasing its transport and session
C12_Witness ==
    /\ lastDone = Done("close", "return", "Closed")
    /\ world.closed >= 2 /\ world.released >= 2
    /\ world.phase = "Closed" /\ tasks = << >>
    /\ world.spawned = 1 /\ world.listings = 1

\* C13: a handler of a tool the provider produced, called after the
\* provider was closed, yields a structured call error and never a raw
\* exception.
C13_HandlerAfterCloseIsCallError ==
    lastDone.kind = "call" /\ lastDone.phase = "Closed" => lastDone.result = "CallError"

\* C15: when a caller-supplied timeout ends a connect() before handshake
\* and listing are complete -- no other call in flight -- the provider is
\* in state Failed with everything released, as after close().
C15_TimeoutReleases ==
    [][/\ lastDone'.kind = "connect" /\ lastDone'.result = "TimeoutError"
       /\ Len(tasks) = 1 /\ tasks' = << >>
       => /\ world'.phase = "Failed"
          /\ rb'.exit_stack = << >>
          /\ rb' = close_reset(close_aclose(rb'))]_vars

\* C20: a get_tools() that follows a get_tools() on the connected provider,
\* with no step of connect() or close() between the two, returns the same
\* list (same ids, same handlers: none is built anew) and no list_tools
\* exchange is added.
C20_GetToolsCached ==
    [][lastGet'.again /\ lastGet'.fresh
       => /\ lastGet'.raised = "none"
          /\ lastGet'.val = lastGet.val
          /\ ~lastGet'.built
          /\ world'.listings = world.listings]_vars

\* the second of two such calls has returned a non-empty list
C20_Witness ==
    /\ lastGet.again /\ lastGet.fresh /\ lastGet.raised = "none"
    /\ lastGet.val # << >> /\ ~lastGet.built
    /\ world.phase = "Connected" /\ world.listings = 1

\* what a registry binds: each tool id with its backend and the descriptor
\* the backend was built for (none for the document store)
Bindings(tools, src) ==
    {[id |-> t.id, server_id |-> t.server_id, name |-> t.name,
      d |-> IF t.handler = 0 THEN None ELSE Some(src[t.handler])] :
        t \in list_all(tools)}

\* C21: over any two orderings of one descriptor list, for one principal
\* and one behaviour of the servers, aggregation fails in both or returns
\* in both registries that bind the same ids to the same backends.
C21_OrderIrrelevant ==
    runs.done =>
        /\ runs.a.raised = "none" <=> runs.b.raised = "none"
        /\ runs.a.raised = "none" =>
              Bindings(runs.a.tools, source)
                = Bindings(runs.b.tools, Permuted(source, runs.perm))

\* both orderings, which differ, returned a registry with tools of two
\* descriptors
C21_Witness ==
    /\ runs.done /\ runs.a.raised = "none"
    /\ Permuted(source, runs.perm) # source
    /\ \E x, y \in Bindings(runs.a.tools, source) :
          x.d # None /\ y.d # None /\ x.d # y.d

\* C22: once backends.json has been reloaded during the loop of an
\* aggregation, the loop still iterates the list it started with and the
\* backends it builds are those of that list's descriptors, while the
\* registry's in-memory config is what the reload read.
C22_ReloadLeavesSnapshot ==
    reload.snapshot # None =>
        /\ servers = reload.snapshot[1]
        /\ config = source
        /\ \A k \in 1..Len(backends) :
              LET b == backends[k]
              IN  b.src # 0 =>
                    /\ b.src <= Len(reload.snapshot[1])
                    /\ b.class = "RemoteBackendServer"
                          => b.server_id = reload.snapshot[1][b.src].name
                    /\ b.class = "MockBackendServer"
                          => reload.snapshot[1][b.src].kind = "local_mcp_mock"

\* the aggregation returned a registry built from both descriptors of the
\* list it started with, although a different list was loaded meanwhile
C22_Witness ==
    /\ reload.n >= 1 /\ reload.snapshot # None
    /\ returned.kind = "registry"
    /\ config # servers
    /\ Len(backends) = Len(servers) + 1

----------------------------------------------------------------------------
(* Claims about tool calls *)

\* C23: at most one request is in flight on the provider's channel.
C23_OneInFlight == channel.inflight <= 1

\* C24: a call of a registered tool that has ended has returned (a result
\* or a failure result) to its caller; no exception left the handler or
\* handle_call_tool.
C24_FailureIsResult ==
    \A k \in 1..Len(channel.calls) :
       (channel.calls[k].at = "ended" /\ channel.calls[k].backend # "none")
          => channel.calls[k].out \in {"result", "failure_result"}

----------------------------------------------------------------------------
(* Claims about McpProcess *)

\* C25: a stop() that has returned raised nothing; on a child that had
\* exited it sent no signal; on a running child it sent the termination
\* signal first, waited no longer than the timeout, and sent the kill
\* (second and last) exactly when the child had not exited when the
\* timeout passed; when it returned the child had exited or had been
\* sent a kill.  A stop() in progress has waited no longer than the
\* timeout.
C25_TerminateThenKill ==
    /\ proc.clock <= StopTimeout
    /\ proc.last.valid =>
          LET l == proc.last
          IN  /\ l.raised = "none"
              /\ ~l.wasRunning => l.sent = << >>
              /\ l.wasRunning =>
                    /\ l.sent \in {<<"TERM">>, <<"TERM", "KILL">>}
                    /\ l.waited <= StopTimeout
                    /\ l.sent = <<"TERM", "KILL">> <=> ~l.exited
                    /\ ~l.exited => l.waited = StopTimeout
              /\ l.exited \/ l.sent[Len(l.sent)] = "KILL"

\* a stop() killed a child that ignored the termination signal, and a
\* later stop(), the child having exited, sent nothing
C25_Witness ==
    /\ proc.stops >= 2
    /\ proc.signals = <<"TERM", "KILL">> /\ proc.clock = StopTimeout
    /\ proc.last.valid /\ ~proc.last.wasRunning /\ proc.last.sent = << >>
    /\ proc.child = "exited"

----------------------------------------------------------------------------
(* Claims about the gateway *)

\* C29: a refresh token is accepted by at most one refresh request, and by
\* none that arrives after a logout made with it (requests are kept in the
\* order they arrive).
C29_RefreshSingleUse ==
    \A j, k \in 1..Len(auth.reqs) :
       LET a == auth.reqs[j]
           b == auth.reqs[k]
       IN  (j < k /\ b.kind = "refresh" /\ a.token = b.token /\ a.token # 0)
              => /\ a.kind = "logout" => b.at = "401"
                 /\ (a.kind = "refresh" /\ a.at = "ok") => b.at # "ok"

\* C30: a request that went on to use a chat session's MCP client was made
\* by the user stored in that session.
C30_SessionUsedByOwnerOnly ==
    chat.last.status = "tool_call" => chat.last.owner = Some(chat.last.user)

----------------------------------------------------------------------------
(* Claims about two aggregations *)

\* the objects session t holds: its registry, its backends, the
\* connections of its backends
Refs(t) ==
    LET f == sessions.sess[t]
        bs == {f.backends[k] : k \in 1..Len(f.backends)}
    IN  ({f.registry} \cup bs \cup {sessions.heap[b].conn : b \in bs}) \ {0}

\* those objects as they are now: what the registry contains (and so what
\* get and list_all return), the state of each backend its handlers call
\* into, whether each connection is open
Owned(t) == [r \in Refs(t) |-> sessions.heap[r]]

\* C16: two aggregations hold no object in common (registry, backends,
\* connections), and a step of one session (of the aggregation itself, a
\* register, a tool call, a close) leaves every object of the other
\* session as it was.
C16_NoSharedState ==
    [][/\ \A s, t \in 1..Len(sessions'.sess) : s # t => Refs(s)' \cap Refs(t)' = {}
       /\ \A t \in 1..Len(sessions.sess) :
             t # sessions'.actor => Owned(t)' = Owned(t)]_vars

\* both aggregations returned a registry and hold a connected remote
\* backend each; session 1 has since closed its provider and registered
\* one more tool, session 2's connection is open
C16_Witness ==
    /\ Len(sessions.sess) = 2
    /\ \A t \in SessionIds : sessions.sess[t].pc = "done" /\ sessions.sess[t].raised = "none"
    /\ \E r \in Refs(1) : sessions.heap[r].class = "Connection" /\ ~sessions.heap[r].open
    /\ \E r \in Refs(2) : sessions.heap[r].class = "Connection" /\ sessions.heap[r].open
    /\ \E tool \in ExtraTools :
          /\ get(sessions.heap[sessions.sess[1].registry].tools, tool.id) = Some(tool)
          /\ get(sessions.heap[sessions.sess[2].registry].tools, tool.id) = None

----------------------------------------------------------------------------
(* Claims about MockBackendServer *)

\* C18: awaiting the handler of a registered tool once yields the final
\* result value of the callable given to add_tool, plain function or
\* coroutine function alike, never a coroutine.
C18_AwaitOnceYieldsValue ==
    local.result.via = "handler" =>
        LET tool == get_tools(local.b).val[local.result.tool]
        IN  local.result.got = Obj(0, local.fns[tool.handler].ret)

\* the ids of a list of tools are pairwise different
DistinctIds(list) ==
    \A i, j \in 1..Len(list) : list[i].id = list[j].id => i = j

\* C27: every add_tool leaves the provider's ids pairwise different; an
\* add under a name already present replaces that entry by the new tool
\* (same number of tools, the new handler under the id), one under a new
\* name adds an entry; registering get_tools() into an empty registry
\* raises nothing.
C27_AddToolLastWins ==
    [][Len(local'.fns) = Len(local.fns) + 1
       => LET old == get_tools(local.b).val
              new == get_tools(local'.b).val
              k == CHOOSE k \in 1..Len(new) : new[k].handler = Len(local'.fns)
          IN  /\ DistinctIds(new)
              /\ \E i \in 1..Len(new) : new[i].handler = Len(local'.fns)
              /\ Len(new) = IF \E i \in 1..Len(old) : old[i].id = new[k].id
                            THEN Len(old) ELSE Len(old) + 1
              /\ \A i \in 1..Len(old) :
                    old[i].id # new[k].id => \E j \in 1..Len(new) : new[j] = old[i]
              /\ register_all(EmptyDict, new).raised = "none"]_vars

\* a name was added twice: more callables were given than there are tools,
\* and the tool of the last one is there
C27_Witness ==
    /\ Len(local.b.tools) >= 1
    /\ Len(local.fns) > Len(local.b.tools)
    /\ \E i \in 1..Len(local.b.tools) : local.b.tools[i].handler = Len(local.fns)

----------------------------------------------------------------------------
(* Claims about loading the backend definitions *)

\* a definition with the fields the loop subscripts: a remote one has a name
WellFormed(d) == d.kind = "remote_mcp" => d.name # None

\* C17: loading fails with a configuration error whenever the source is
\* structurally invalid, a definition without a required field included:
\* the in-memory config never holds such a definition, and with an invalid
\* source the call ends with that error before the loop did anything.
C17_InvalidSourceFailsAtLoad ==
    rev = "config" =>
        /\ \A k \in 1..Len(config) : WellFormed(config[k])
        /\ pc # "idle" /\ disk \in {"not_json", "no_backends", "not_a_list"} =>
              /\ pc = "done" /\ raised \in {"ValueError", "JSONDecodeError"}
              /\ log = << >> /\ backends = << >>
        /\ raised = "KeyError" => log = << >> \/ pc = "ended"

\* C26: when build_middleware_tool_registry is left by an exception, every
\* remote provider the aggregation had connected has been closed.
C26_AbortClosesConnected ==
    (entry = "build" /\ pc = "done" /\ raised # "none") =>
        \A k \in 1..Len(backends) :
           backends[k].class = "RemoteBackendServer" =>
              backends[k].exit_stack = << >> /\ backends[k].session = "None"

----------------------------------------------------------------------------
(* Claims about the document store tools *)

\* the tools of the document_store backend that build_embedding_manager
\* makes (handler 0: not built for a descriptor)
DocStoreUpsert == RegisteredTool(Dot(DOCSTORE, OpDocUpsert), DOCSTORE, OpDocUpsert, 0)
DocStoreSearch == RegisteredTool(Dot(DOCSTORE, OpDocSearch), DOCSTORE, OpDocSearch, 0)

----------------------------------------------------------------------------
(* Claims about the end of a session *)

\* C14: once the session of an aggregation has ended, every remote
\* provider the aggregation connected has been closed: nothing it opened is
\* still on its exit stack.
C14_ClosedOnSessionEnd ==
    pc = "ended" =>
        \A k \in 1..Len(backends) :
            backends[k].class = "RemoteBackendServer" =>
                backends[k].exit_stack = << >> /\ backends[k].session = "None"

====
